---- MODULE Spec2Model ----
(***************************************************************************)
(* Model of the qvm Salt state and execution modules of                    *)
(* qubes-mgmt-salt-dom0-qvm: the sequencer vm() of _states/ext_state_qvm.py*)
(* and the reconciling module functions of _modules/ext_module_qvm.py      *)
(* (check, prefs, devices, service, features, tags, firewall), run against *)
(* one virtual machine of the Qubes store.                                 *)
(*                                                                         *)
(* Python values are encoded as strings that keep their type: the integer  *)
(* 400 is "400", the string '400' is "'400'", None is "None", the booleans *)
(* are "True" and "False".                                                 *)
(***************************************************************************)
EXTENDS Integers, Sequences, FiniteSets, TLC

VARIABLES
    test,      \* __opts__['test'] of the run
    store,     \* the VM record of the Qubes store (the authoritative state)
    call,      \* the module call made last: function, arguments, store before it
    status,    \* what that call returned (or the exception it raised)
    pc,        \* position of vm(): "start", "loop", "done", "raised"
    actions,   \* vm(): the action list, entries [action, value]
    kwargs,    \* vm(): the keyword bag (a set of action names)
    idx,       \* vm(): index of the next entry of the action list
    ret,       \* vm(): the aggregate {result, changes, comment}
    steps      \* vm(): per handled step, [action, value, executed, result,
               \* exc, cmds, pre, agg]: what it returned or raised, the commands
               \* it ran, the store before it, the aggregate result after it

vars == <<test, store, call, status, pc, actions, kwargs, idx, ret, steps>>

(***************************************************************************)
(* Bounds of the model.                                                    *)
(***************************************************************************)
MaxActions == 3       \* length of the action list handed to vm()
MaxList == 3          \* total length of the lists of one service/features/tags call
MaxDevs == 2          \* total length of the device lists of one prefs/devices call
MaxRules == 2         \* length of the rule list of one firewall call

None == "None"
Absent == "<absent>"  \* a keyword that was not given
Null == "Null"        \* the value of a property that is asked for, not set

(***************************************************************************)
(* Generic helpers.                                                        *)
(***************************************************************************)
Range(s) == {s[i] : i \in 1..Len(s)}

SeqsUpTo(S, n) == UNION {[1..k -> S] : k \in 0..n}

RECURSIVE IndexOf(_, _, _)
IndexOf(s, x, i) ==
    IF i > Len(s) THEN 0 ELSE IF s[i] = x THEN i ELSE IndexOf(s, x, i + 1)

\* list.remove(x): drops the FIRST occurrence of x
ListRemove(s, x) ==
    LET i == IndexOf(s, x, 1)
    IN  IF i = 0 THEN s ELSE SubSeq(s, 1, i - 1) \o SubSeq(s, i + 1, Len(s))

\* bool(v) of an encoded Python value
Truthy(v) == v \notin {"None", "False", "''", "0"}

PyNot(v) == IF Truthy(v) THEN "False" ELSE "True"


(***************************************************************************)
(* The store: one VM of qubesadmin's collection.  Values are kept the way  *)
(* the store returns them: memory as an integer, feature values and device *)
(* options as strings.                                                     *)
(***************************************************************************)
Names == {"a", "b"}                       \* service, feature and tag names
SvcKey(n) == "service." \o n              \* 'service.' + service_name
FeatKeys == Names \cup {SvcKey(n) : n \in Names}
PciIds == {"01_00.0", "02_00.0"}          \* idents of the devices of dom0
NoDev == "-"                              \* the device is not assigned
NoOpts == "{}"                            \* options of an assignment: {}
StoredOpts == {NoOpts, "{nsr:'True'}", "{nsr:'False'}"}
Rules == {"action=accept", "action=drop"}

Store0 ==
    [exists   |-> TRUE,
     power    |-> "halted",
     memory   |-> "400",
     devs     |-> [d \in PciIds |-> NoDev],
     features |-> [k \in FeatKeys |-> None],
     tags     |-> {},
     rules    |-> <<"action=accept">>,
     source   |-> "halted",               \* power state of the VM a clone is made from
     template |-> FALSE]                  \* qvm-template info --installed finds the name

(***************************************************************************)
(* Status records (module_utils.Status, ModuleBase.save_status and         *)
(* ModuleBase.status): every save_status appends one entry; status()       *)
(* merges the entries into the record handed back to the state layer.      *)
(***************************************************************************)
NoChanges == <<>>

Entry(retcode, prefix, message, changes) ==
    [retcode |-> retcode, prefix |-> prefix, message |-> message,
     changes |-> changes]

Change(key, old, new) == key :> [old |-> old, new |-> new]

RECURSIVE MergeChanges(_)
MergeChanges(entries) ==
    IF entries = <<>> THEN NoChanges
    ELSE entries[Len(entries)].changes
             @@ MergeChanges(SubSeq(entries, 1, Len(entries) - 1))

\* status-mode 'all': any failed entry fails the call; 'last': the last decides
Retcode(entries, mode) ==
    IF entries = <<>> THEN 0
    ELSE IF mode = "all"
         THEN IF \E i \in 1..Len(entries) : entries[i].retcode # 0 THEN 1 ELSE 0
         ELSE entries[Len(entries)].retcode

\* Status._finalize: a passing status is reported as None (unknown) in test mode
Finalize(entries, mode, testMode) ==
    LET rc == Retcode(entries, mode)
    IN  [retcode |-> rc,
         result  |-> IF rc # 0 THEN "False"
                     ELSE IF testMode THEN None ELSE "True",
         changes |-> MergeChanges(entries),
         comment |-> [i \in 1..Len(entries) |->
                         <<entries[i].prefix>> \o entries[i].message]]

\* What a module function hands back: the store it leaves, the status
\* entries it saved, and the exception it raised ("none" when it returned).
\* kind "dict" is a function returning a plain dict instead of a Status;
\* cmds lists the commands and power calls the function executed.
Outcome(st, entries, mode, exc) ==
    [st |-> st, entries |-> entries, mode |-> mode, exc |-> exc,
     kind |-> "status", cmds |-> <<>>]

VMMissing(st) ==
    Outcome(st, <<>>, "last", "SaltInvocationError")


(***************************************************************************)
(* The mutators of the store (qubesadmin).  fault is the set of mutator    *)
(* calls the store refuses with a QubesException during one module call.   *)
(***************************************************************************)
OnDev(op, ident) == op \o ":" \o ident    \* "attach:01_00.0", "tag:a", ...
\* setattr(vm, 'memory', value): the property is stored as an integer
IntOf(v) == IF v = "'400'" THEN "400" ELSE IF v = "'600'" THEN "600" ELSE v

\* DeviceAssignment options as the store keeps them: values become strings
Serialize(opts) ==
    CASE opts = "{nsr:True}"  -> "{nsr:'True'}"
      [] opts = "{nsr:False}" -> "{nsr:'False'}"
      [] OTHER                -> opts

\* options.get('no-strict-reset', False) of a stored assignment
OptGet(stored) ==
    CASE stored = "{nsr:'True'}"  -> "'True'"
      [] stored = "{nsr:'False'}" -> "'False'"
      [] OTHER                    -> "False"

Attached(st) == {d \in PciIds : st.devs[d] # NoDev}

\* vm.devices['pci'].attached() / assignments(), in the store's order
AttachedSeq(st) ==
    (IF st.devs["01_00.0"] # NoDev THEN <<"01_00.0">> ELSE <<>>)
        \o (IF st.devs["02_00.0"] # NoDev THEN <<"02_00.0">> ELSE <<>>)

\* str(dev.ident).replace('_', ':')
ToUser(ident) == IF ident = "01_00.0" THEN "01:00.0" ELSE "02:00.0"

\* dev_id.strip().replace(':', '_')
ToApi(dev_id) == IF dev_id \in {"01:00.0", "01_00.0"} THEN "01_00.0" ELSE "02_00.0"

UserDevs == {"01:00.0", "01_00.0", "02:00.0"}

(***************************************************************************)
(* qvm.check: runs qvm-check also in test mode (test_ignore=True); for     *)
(* 'missing' the post hook inverts the return code.                        *)
(***************************************************************************)
\* a check whose post hook does not invert the return code for 'missing'
checkNoInvert(st, what) ==
    Outcome(st, <<Entry(IF st.exists THEN 0 ELSE 1, "", <<"qvm-check", what>>,
                        NoChanges)>>,
            "last", "none")

check(st, what) ==
    LET rc0 == IF st.exists THEN 0 ELSE 1
        rc  == IF what = "missing" THEN 1 - rc0 ELSE rc0
    IN  Outcome(st, <<Entry(rc, "", <<"qvm-check", what>>, NoChanges)>>,
                "last", "none")

(***************************************************************************)
(* qvm.prefs.  kw = [action, given, memory, pci_strictreset, pcidevs]:     *)
(* given is the set of property keywords present in kwargs.                *)
(***************************************************************************)
PropOrder == <<"memory", "pci_strictreset", "pcidevs">>

\* names a caller may give that are no property of the group
UnknownNames == {"bogus"}

\* lines 852-858: the names given positionally that are no selected property
\* get a failing entry each
InvalidKeys(kw) ==
    IF kw.action = "get" /\ kw.form = "positional" THEN kw.invalid ELSE {}

RECURSIVE InvalidEntries(_)
InvalidEntries(names) ==
    IF names = {} THEN <<>>
    ELSE LET r == CHOOSE x \in names : TRUE
         IN  <<Entry(1, "", <<r, "Invalid key!">>, NoChanges)>>
                 \o InvalidEntries(names \ {r})

Selected(kw) ==
    LET sel == SelectSeq(PropOrder, LAMBDA k : k \in kw.given)
    IN  IF kw.action = "list" /\ sel = <<>> THEN PropOrder ELSE sel

\* an action that takes get with names for a set
PrefsActionGetSets(kw) ==
    IF kw.action \in {"list", "get"} /\ kw.given # {} THEN "set" ELSE kw.action

PrefsAction(kw) ==
    IF kw.action = "list" /\ kw.given # {} THEN "set" ELSE kw.action

\* lines 917-950: the pcidevs branch; acc carries the store, value_combined
\* and the exception raised so far
RECURSIVE AttachPci(_, _, _, _, _)
AttachPci(acc, value_new, i, psr, fault) ==
    IF i > Len(value_new) \/ acc.exc # "none" THEN acc
    ELSE
      LET dev_id  == value_new[i]
          api     == ToApi(dev_id)
          cur     == acc.st.devs[api]
          readj   == /\ cur # NoDev
                     /\ psr # None
                     /\ OptGet(cur) # PyNot(psr)
          opts    == IF psr = None THEN NoOpts
                     ELSE IF PyNot(psr) = "True" THEN "{nsr:True}" ELSE "{nsr:False}"
          st1     == IF readj
                     THEN [acc.st EXCEPT !.devs[api] = NoDev]
                     ELSE acc.st
      IN  IF readj /\ OnDev("detach", api) \in fault
          THEN [acc EXCEPT !.exc = "QubesException"]
          ELSE IF readj /\ IndexOf(acc.combined, dev_id, 1) = 0
          THEN [acc EXCEPT !.st = st1, !.exc = "ValueError"]
          ELSE
            LET comb1 == IF readj THEN ListRemove(acc.combined, dev_id)
                         ELSE acc.combined
            IN  IF st1.devs[api] # NoDev
                THEN \* DeviceAlreadyAttached: continue
                     AttachPci([acc EXCEPT !.st = st1, !.combined = comb1],
                               value_new, i + 1, psr, fault)
                ELSE IF OnDev("attach", api) \in fault
                THEN [acc EXCEPT !.st = st1, !.exc = "QubesException"]
                ELSE AttachPci(
                       [acc EXCEPT
                          !.st = [st1 EXCEPT !.devs[api] = Serialize(opts)],
                          !.combined = Append(comb1, dev_id)],
                       value_new, i + 1, psr, fault)

\* lines 865-961: one pass of the loop over selected_properties
RECURSIVE PrefsLoop(_, _, _, _, _)
PrefsLoop(acc, keys, i, kw, fault) ==
    IF i > Len(keys) \/ acc.exc # "none" THEN acc
    ELSE
      LET dest == keys[i]
          st   == acc.st
          psr  == IF "pci_strictreset" \in kw.given
                  THEN kw.pci_strictreset ELSE None
          curdevs == [j \in 1..Len(AttachedSeq(st)) |-> ToUser(AttachedSeq(st)[j])]
          curpsr  == IF \A d \in Attached(st) : ~Truthy(OptGet(st.devs[d]))
                     THEN "True" ELSE "False"
          acc1 == IF dest = "pci_strictreset"
                  THEN [acc EXCEPT !.cur_psr = curpsr] ELSE acc
          next(a) == PrefsLoop(a, keys, i + 1, kw, fault)
          save(e) == [acc1 EXCEPT !.entries = Append(@, e)]
      IN
      IF dest = "pcidevs" THEN
        IF PrefsAction(kw) \in {"list", "get", "gry"}
        THEN next(save(Entry(0, "", <<dest>> \o curdevs, NoChanges)))
        ELSE IF curdevs = kw.pcidevs /\ psr = acc1.cur_psr
        THEN next(save(Entry(0, "[SKIP] ", <<dest>> \o curdevs, NoChanges)))
        ELSE
          LET r == AttachPci([st |-> st, combined |-> curdevs, exc |-> "none"],
                             kw.pcidevs, 1, psr, fault)
          IN  IF r.exc # "none"
              THEN [acc1 EXCEPT !.st = r.st, !.exc = r.exc]
              ELSE next([save(Entry(0, "", <<>>,
                                    Change(dest, curdevs, r.combined)))
                           EXCEPT !.st = r.st])
      ELSE
        LET value_current == IF dest = "pci_strictreset" THEN curpsr ELSE st.memory
            value_new     == IF dest = "pci_strictreset" THEN kw.pci_strictreset
                             ELSE kw.memory
        IN
        IF PrefsAction(kw) \in {"list", "get", "gry"}
        THEN next(save(Entry(0, "", <<dest, value_current>>, NoChanges)))
        ELSE IF value_current = value_new
        THEN next(save(Entry(0, "[SKIP] ", <<dest, value_current>>, NoChanges)))
        ELSE IF dest = "pci_strictreset"
        THEN IF "pcidevs" \in kw.given
             THEN next(save(Entry(0, "", <<>>,
                                  Change(dest, value_current, value_new))))
             ELSE next(save(Entry(1, "", <<dest, "works only together with 'pcidevs'">>,
                                  NoChanges)))
        ELSE IF "setattr" \in fault
        THEN [acc1 EXCEPT !.exc = "QubesException"]
        ELSE \* delattr(args.vm, dest) for '*default*', else setattr
             next([save(Entry(0, "", <<>>,
                              Change(dest, value_current, value_new)))
                     EXCEPT !.st = [st EXCEPT !.memory = IntOf(value_new)]])

prefs(st, kw, testMode, fault) ==
    \* args.vm is first read inside the loop over the selected properties
    IF ~st.exists /\ Selected(kw) # <<>> THEN VMMissing(st)
    ELSE
      LET r == PrefsLoop([st |-> st, entries |-> InvalidEntries(InvalidKeys(kw)),
                          exc |-> "none", cur_psr |-> None],
                         Selected(kw), 1, kw, fault)
      IN  Outcome(r.st, r.entries, "all", r.exc)


(***************************************************************************)
(* qvm.devices.  kw = [list, attach, detach]: attach is a list of          *)
(* [dev, options], detach a list of idents (device_type pci, backend dom0).*)
(***************************************************************************)
UserOpts == {NoOpts, "{nsr:True}", "{nsr:'True'}"}

DevName(ident) == "pci:dom0:" \o ident

\* lines 1097-1137
RECURSIVE DevAttachLoop(_, _, _, _)
DevAttachLoop(acc, attach, i, fault) ==
    IF i > Len(attach) \/ acc.exc # "none" THEN acc
    ELSE
      LET device == attach[i]
          cur    == acc.st.devs[device.dev]
          differ == cur # NoDev /\ cur # device.options
          skip   == cur # NoDev /\ cur = device.options
          old    == IF differ THEN "[ATTACHED] " \o cur ELSE None
          st1    == IF differ THEN [acc.st EXCEPT !.devs[device.dev] = NoDev]
                    ELSE acc.st
          next(a) == DevAttachLoop(a, attach, i + 1, fault)
      IN  IF differ /\ OnDev("detach", device.dev) \in fault
          THEN [acc EXCEPT !.exc = "QubesException"]
          ELSE IF skip
          THEN next([acc EXCEPT !.entries =
                       Append(@, Entry(0, "[SKIP] ",
                                       <<"Device already attached", device.dev>>,
                                       NoChanges))])
          ELSE IF OnDev("attach", device.dev) \in fault
          THEN next([acc EXCEPT !.st = st1, !.entries =
                       Append(@, Entry(1, "", <<"QubesException", device.dev>>,
                                       NoChanges))])
          ELSE next([acc EXCEPT
                       !.st = [st1 EXCEPT !.devs[device.dev] =
                                              Serialize(device.options)],
                       !.entries =
                         Append(@, Entry(0, "", <<>>,
                                  Change(DevName(device.dev), old,
                                         "[ATTACHED] " \o device.options)))])

\* lines 1139-1158: detaching a device that is not attached is an error of
\* the store, recorded like every other QubesException
RECURSIVE DevDetachLoop(_, _, _, _)
DevDetachLoop(acc, detach, i, fault) ==
    IF i > Len(detach) THEN acc
    ELSE
      LET dev == detach[i]
          next(a) == DevDetachLoop(a, detach, i + 1, fault)
      IN  IF acc.st.devs[dev] = NoDev \/ OnDev("detach", dev) \in fault
          THEN next([acc EXCEPT !.entries =
                       Append(@, Entry(1, "", <<"QubesException", dev>>,
                                       NoChanges))])
          ELSE next([acc EXCEPT
                       !.st = [acc.st EXCEPT !.devs[dev] = NoDev],
                       !.entries =
                         Append(@, Entry(0, "", <<>>,
                                  Change(DevName(dev), "[ATTACHED]",
                                         "[DETACHED]")))])

devices(st, kw, testMode, fault) ==
    IF ~st.exists THEN VMMissing(st)
    ELSE IF kw.list \/ (kw.attach = <<>> /\ kw.detach = <<>>)
    THEN [Outcome(st, <<>>, "all", "none") EXCEPT !.kind = "dict"]
    ELSE
      LET a == DevAttachLoop([st |-> st, entries |-> <<>>, exc |-> "none"],
                             kw.attach, 1, fault)
          d == IF a.exc # "none" THEN a
               ELSE DevDetachLoop(a, kw.detach, 1, fault)
      IN  Outcome(d.st, d.entries, "all", d.exc)


(***************************************************************************)
(* The duplicate-removal pass of service, features and tags: a Python      *)
(* 'for value in action' whose body calls action.remove(value), which      *)
(* drops the first occurrence while the iterator's index moves on.         *)
(***************************************************************************)
RECURSIVE DedupList(_, _, _)
DedupList(list, i, seen) ==
    IF i > Len(list) THEN [list |-> list, seen |-> seen]
    ELSE IF list[i] \notin seen
         THEN DedupList(list, i + 1, seen \cup {list[i]})
         ELSE DedupList(ListRemove(list, list[i]), i + 1, seen)

\* the pass over the three lists, in the order [default, disable, enable]
Dedup3(default, disable, enable) ==
    LET d1 == DedupList(default, 1, {})
        d2 == DedupList(disable, 1, d1.seen)
        d3 == DedupList(enable, 1, d2.seen)
    IN  [default |-> d1.list, disable |-> d2.list, enable |-> d3.list]

\* label(value) of service
Label(v) ==
    CASE v = "'1'" -> "Enabled"
      [] v = "''"  -> "Disabled"
      [] v = None  -> "Missing"
      [] OTHER     -> v

\* action_map
ActionMap(action) ==
    CASE action = "enable"  -> "'1'"
      [] action = "disable" -> "''"
      [] OTHER              -> None

\* vm.features[key] = value: the store keeps str(value), a bool as '1' or ''
StrOf(v) ==
    CASE v = "True"  -> "'1'"
      [] v = "False" -> "''"
      [] OTHER       -> v

\* One reconciled item of service and features (lines 1318-1345, 1545-1571):
\* cur is the snapshot taken before the loop, acc.st the live store.
FeatureItem(acc, key, name, action, value_new, cur, old, new, what, testMode, fault) ==
    IF cur[key] = value_new
    THEN [acc EXCEPT !.entries =
            Append(@, Entry(0, "[SKIP] ", <<what, action, name, Label(cur[key])>>,
                            NoChanges))]
    ELSE IF ~testMode /\ (OnDev("feature", key) \in fault
                          \/ (value_new = None /\ acc.st.features[key] = None))
    THEN [acc EXCEPT !.exc = "QubesException"]
    ELSE [acc EXCEPT
            !.st = IF testMode THEN @
                   ELSE [@ EXCEPT !.features[key] = StrOf(value_new)],
            !.entries = Append(@, Entry(0, "", <<>>, Change(name, old, new)))]

(***************************************************************************)
(* qvm.service.  kw = [list, enable, disable, default].                    *)
(***************************************************************************)
RECURSIVE ServiceLoop(_, _, _, _, _, _, _)
ServiceLoop(acc, action, names, i, cur, testMode, fault) ==
    IF i > Len(names) \/ acc.exc # "none" THEN acc
    ELSE ServiceLoop(
           FeatureItem(acc, SvcKey(names[i]), names[i], action,
                       ActionMap(action), cur,
                       Label(cur[SvcKey(names[i])]), Label(ActionMap(action)),
                       "Service already in desired state", testMode, fault),
           action, names, i + 1, cur, testMode, fault)

NameOrder == <<"a", "b">>

service(st, kw, testMode, fault) ==
    IF ~st.exists THEN VMMissing(st)
    ELSE IF kw.list \/ (kw.enable = <<>> /\ kw.disable = <<>> /\ kw.default = <<>>)
    THEN LET cur == SelectSeq(NameOrder,
                              LAMBDA n : st.features[SvcKey(n)] # None)
         IN  Outcome(st,
                     [i \in 1..Len(cur) |->
                        Entry(0, IF Truthy(st.features[SvcKey(cur[i])])
                                 THEN "[ENABLED]  " ELSE "[DISABLED] ",
                              <<cur[i]>>, NoChanges)],
                     "all", "none")
    ELSE
      LET args == Dedup3(kw.default, kw.disable, kw.enable)
          cur  == st.features
          a0   == [st |-> st, entries |-> <<>>, exc |-> "none"]
          a1   == ServiceLoop(a0, "enable", args.enable, 1, cur, testMode, fault)
          a2   == ServiceLoop(a1, "disable", args.disable, 1, cur, testMode, fault)
          a3   == ServiceLoop(a2, "default", args.default, 1, cur, testMode, fault)
      IN  Outcome(a3.st, a3.entries, "all", a3.exc)

(***************************************************************************)
(* qvm.features.  kw = [list, enable, disable, default, set]; set is a     *)
(* list of [name, value].                                                  *)
(***************************************************************************)
RECURSIVE FeaturesLoop(_, _, _, _, _, _, _)
FeaturesLoop(acc, action, items, i, cur, testMode, fault) ==
    IF i > Len(items) \/ acc.exc # "none" THEN acc
    ELSE
      LET name      == IF action = "set" THEN items[i].name ELSE items[i]
          value_new == IF action = "set" THEN items[i].value
                       ELSE ActionMap(action)
      IN  FeaturesLoop(
            FeatureItem(acc, name, name, action, value_new, cur,
                        cur[name], value_new,
                        "Feature already in desired state", testMode, fault),
            action, items, i + 1, cur, testMode, fault)

SetValues == {"'x'", "True"}

features(st, kw, testMode, fault) ==
    IF ~st.exists THEN VMMissing(st)
    ELSE IF kw.list \/ (kw.enable = <<>> /\ kw.disable = <<>>
                        /\ kw.default = <<>> /\ kw.set = <<>>)
    THEN LET keys == <<"a", "b", "service.a", "service.b">>
             cur  == SelectSeq(keys, LAMBDA k : st.features[k] # None)
         IN  Outcome(st,
                     [i \in 1..Len(cur) |->
                        Entry(0, IF st.features[cur[i]] = "'1'" THEN "[ENABLED]  "
                                 ELSE IF ~Truthy(st.features[cur[i]])
                                      THEN "[DISABLED] " ELSE "[SET]      ",
                              <<cur[i]>>, NoChanges)],
                     "all", "none")
    ELSE
      LET args == Dedup3(kw.default, kw.disable, kw.enable)
          cur  == st.features
          a0   == [st |-> st, entries |-> <<>>, exc |-> "none"]
          a1   == FeaturesLoop(a0, "enable", args.enable, 1, cur, testMode, fault)
          a2   == FeaturesLoop(a1, "disable", args.disable, 1, cur, testMode, fault)
          a3   == FeaturesLoop(a2, "default", args.default, 1, cur, testMode, fault)
          a4   == FeaturesLoop(a3, "set", kw.set, 1, cur, testMode, fault)
      IN  Outcome(a4.st, a4.entries, "all", a4.exc)


(***************************************************************************)
(* qvm.tags.  kw = [list, add, del].                                       *)
(***************************************************************************)
\* list(sorted(tags)): the names of a set in ascending order
Sorted(S) == SelectSeq(NameOrder, LAMBDA n : n \in S)

\* a pass that loses the add list
Dedup2DropsAdd(del, add) == [del |-> del, add |-> <<>>]

\* lines 1677-1682: the pass over [do_del, do_add]
Dedup2(del, add) ==
    LET d1 == DedupList(del, 1, {})
        d2 == DedupList(add, 1, d1.seen)
    IN  [del |-> d1.list, add |-> d2.list]

\* lines 1685-1692: vm.tags.add / vm.tags.discard against the store
RECURSIVE TagsApply(_, _, _, _, _)
TagsApply(acc, op, tagList, i, fault) ==
    IF i > Len(tagList) \/ acc.exc # "none" THEN acc
    ELSE IF OnDev("tag", tagList[i]) \in fault
    THEN [acc EXCEPT !.exc = "QubesException"]
    ELSE TagsApply(
           [acc EXCEPT !.st.tags = IF op = "add" THEN @ \cup {tagList[i]}
                                   ELSE @ \ {tagList[i]}],
           op, tagList, i + 1, fault)

tags(st, kw, testMode, fault) ==
    IF ~st.exists THEN VMMissing(st)
    ELSE IF kw.list \/ (kw.add = <<>> /\ kw.del = <<>>)
    THEN LET cur == SelectSeq(NameOrder, LAMBDA n : n \in st.tags)
         IN  Outcome(st, [i \in 1..Len(cur) |->
                            Entry(0, "", <<cur[i]>>, NoChanges)],
                     "last", "none")
    ELSE
      LET args == Dedup2(kw.del, kw.add)
          current_tags == st.tags
          a0 == [st |-> st, exc |-> "none"]
          a1 == TagsApply(a0, "add", args.add, 1, fault)
          a2 == TagsApply(a1, "del", args.del, 1, fault)
          new_tags == IF testMode
                      THEN (current_tags \cup Range(args.add)) \ Range(args.del)
                      ELSE a2.st.tags
      IN  IF ~testMode /\ a2.exc # "none"
          THEN Outcome(a2.st, <<Entry(1, "", <<"QubesException">>, NoChanges)>>,
                       "last", "none")
          ELSE Outcome(IF testMode THEN st ELSE a2.st,
                       IF new_tags # current_tags
                       THEN <<Entry(0, "", <<>>,
                                    ("old" :> Sorted(current_tags))
                                        @@ ("new" :> Sorted(new_tags)))>>
                       ELSE <<Entry(0, "[SKIP] ",
                                    <<"All requested tags already set">>,
                                    NoChanges)>>,
                       "last", "none")

(***************************************************************************)
(* qvm.firewall.  kw = [list, set]: set is a list of rule strings.         *)
(***************************************************************************)
UserRules == {"action=accept", "action=drop", "proto=tcp action=accept", "bogus"}

\* qubesadmin.firewall.Rule(r).rule: the rule in its canonical spelling
CanonRule(r) ==
    IF r = "proto=tcp action=accept" THEN "action=accept proto=tcp" ELSE r

ValidRule(r) == r # "bogus"

firewall(st, kw, testMode, fault) ==
    IF ~st.exists THEN VMMissing(st)
    ELSE
      LET current_rules == st.rules
      IN  IF kw.list \/ kw.set = <<>>
          THEN Outcome(st, [i \in 1..Len(current_rules) |->
                              Entry(0, "", <<current_rules[i]>>, NoChanges)],
                       "last", "none")
          ELSE IF \E i \in 1..Len(kw.set) : ~ValidRule(kw.set[i])
          THEN Outcome(st, <<Entry(1, "", <<"ValueError">>, NoChanges)>>,
                       "last", "none")
          ELSE
            LET new_rules == [i \in 1..Len(kw.set) |-> CanonRule(kw.set[i])]
            IN  IF current_rules # new_rules
                THEN IF ~testMode /\ "firewall" \in fault
                     THEN Outcome(st, <<>>, "last", "QubesException")
                     ELSE Outcome(IF testMode THEN st
                                  ELSE [st EXCEPT !.rules = new_rules],
                                  <<Entry(0, "", <<>>,
                                          ("old" :> current_rules)
                                              @@ ("new" :> new_rules))>>,
                                  "last", "none")
                ELSE Outcome(st, <<Entry(0, "[SKIP] ",
                                         <<"All requested rules already set">>,
                                         NoChanges)>>,
                             "last", "none")


\* a create that runs qvm-create in test mode too
createInTestMode(st, testMode, fault) ==
    IF st.exists
    THEN Outcome(st, <<Entry(1, "", <<"qvm-check", "missing">>, NoChanges)>>,
                 "last", "none")
    ELSE [Outcome([Store0 EXCEPT !.exists = TRUE],
                  <<Entry(0, "", <<"qvm-create">>, NoChanges)>>, "last", "none")
            EXCEPT !.cmds = <<"qvm-create">>]

(***************************************************************************)
(* qvm.create: confirms the VM is missing, then runs qvm-create (the       *)
(* command runner does not execute it in test mode and reports success).   *)
(***************************************************************************)
create(st, testMode, fault) ==
    LET missing_status == check(st, "missing").entries
    IN  IF missing_status[1].retcode # 0
        THEN Outcome(st, missing_status, "last", "none")
        ELSE IF testMode
        THEN Outcome(st, missing_status
                           \o <<Entry(0, "", <<"qvm-create">>, NoChanges)>>,
                     "last", "none")
        ELSE IF OnDev("noeffect", "qvm-create") \in fault
        THEN \* the command reports success and has created nothing
             [Outcome(st, missing_status
                            \o <<Entry(0, "", <<"qvm-create">>, NoChanges)>>,
                      "last", "none")
                EXCEPT !.cmds = <<"qvm-create">>]
        ELSE IF "qvm-create" \in fault
        THEN [Outcome(st, missing_status
                            \o <<Entry(1, "", <<"qvm-create">>, NoChanges)>>,
                      "last", "none")
                EXCEPT !.cmds = <<"qvm-create">>]
        ELSE [Outcome([Store0 EXCEPT !.exists = TRUE],
                      missing_status
                          \o <<Entry(0, "", <<"qvm-create">>, NoChanges)>>,
                      "last", "none")
                EXCEPT !.cmds = <<"qvm-create">>]

(***************************************************************************)
(* Power state and lifecycle: qvm.state, start, shutdown, kill, pause,     *)
(* unpause, remove and clone.  A function works on an accumulator          *)
(* [st, entries, cmds, exc].  The truth value of a Status is passed().     *)
(***************************************************************************)
Powers == {"halted", "running", "paused", "transient"}

\* the status qvm.state saves: retcode 1 when the power state is another one
StateEntry(st, what) ==
    Entry(IF st.power = what THEN 0 ELSE 1, "", <<"qvm.state", what>>, NoChanges)

state(st, what) ==
    IF ~st.exists THEN VMMissing(st)
    ELSE Outcome(st, <<StateEntry(st, what)>>, "last", "none")

Acc(st, entries) == [st |-> st, entries |-> entries, cmds |-> <<>>, exc |-> "none"]

Save(acc, e) == [acc EXCEPT !.entries = Append(@, e)]

Info(message) == Entry(0, "", <<message>>, NoChanges)

Done(acc) ==
    [Outcome(acc.st, acc.entries, "last", acc.exc) EXCEPT !.cmds = acc.cmds]

\* what an executed command or power call does to the store
Effect(st, cmd) ==
    CASE cmd = "qvm-start"    -> [st EXCEPT !.power = "running"]
      [] cmd = "qvm-shutdown" -> [st EXCEPT !.power = "halted"]
      [] cmd = "qvm-kill"     -> [st EXCEPT !.power = "halted"]
      [] cmd = "qvm-remove"   -> [st EXCEPT !.exists = FALSE, !.power = "halted"]
      [] cmd = "qvm-clone"    -> [st EXCEPT !.exists = TRUE, !.power = "halted"]
      [] cmd = "pause"        -> [st EXCEPT !.power = "paused"]
      [] cmd = "unpause"      -> [st EXCEPT !.power = "running"]
      [] cmd = "start_guid"   -> [st EXCEPT !.power = "running"]

\* qvm.run(cmd): not executed in test mode, where it reports success; an
\* executed command fails, or succeeds with or without having had its effect
Run(acc, cmd, testMode, fault) ==
    IF testMode THEN Save(acc, Entry(0, "", <<cmd>>, NoChanges))
    ELSE IF OnDev("noeffect", cmd) \in fault
    THEN [Save(acc, Entry(0, "", <<cmd>>, NoChanges))
            EXCEPT !.cmds = Append(@, cmd)]
    ELSE IF cmd \in fault
    THEN [Save(acc, Entry(1, "", <<cmd>>, NoChanges))
            EXCEPT !.cmds = Append(@, cmd)]
    ELSE [Save(acc, Entry(0, "", <<cmd>>, NoChanges))
            EXCEPT !.cmds = Append(@, cmd), !.st = Effect(@, cmd)]

\* args.vm.pause() / args.vm.unpause(): a call of the store
Api(acc, op, fault) ==
    IF OnDev("noeffect", op) \in fault
    THEN [acc EXCEPT !.cmds = Append(@, op)]
    ELSE IF op \in fault
    THEN [acc EXCEPT !.cmds = Append(@, op), !.exc = "QubesException"]
    ELSE [acc EXCEPT !.cmds = Append(@, op), !.st = Effect(@, op)]

\* a pause that pauses in test mode too
pauseInTestMode(st, testMode, fault) ==
    IF ~st.exists THEN VMMissing(st)
    ELSE LET a0 == Acc(st, <<StateEntry(st, "running")>>)
         IN  IF st.power # "running"
             THEN Done(Save(a0, Info("VM is not running")))
             ELSE LET a1 == Api(a0, "pause", fault)
                  IN  IF a1.exc # "none" THEN Done(a1)
                      ELSE Done(Save(a1, StateEntry(a1.st, "paused")))

\* lines 2262-2305
pause(st, testMode, fault) ==
    IF ~st.exists THEN VMMissing(st)
    ELSE LET a0 == Acc(st, <<StateEntry(st, "running")>>)
         IN  IF st.power # "running"
             THEN Done(Save(a0, Info("VM is not running")))
             ELSE IF testMode
             THEN Done(Save(a0, Info("VM is set to be paused")))
             ELSE LET a1 == Api(a0, "pause", fault)
                  IN  IF a1.exc # "none" THEN Done(a1)
                      ELSE Done(Save(a1, StateEntry(a1.st, "paused")))

\* an unpause that does not look at the power state first
unpauseWhatever(st, testMode, fault) ==
    IF ~st.exists THEN VMMissing(st)
    ELSE LET a0 == Acc(st, <<StateEntry(st, "paused")>>)
         IN  IF testMode
             THEN Done(Save(a0, Info("VM set to be resumed")))
             ELSE LET a1 == Api(a0, "unpause", fault)
                  IN  IF a1.exc # "none" THEN Done(a1)
                      ELSE Done(Save(a1, StateEntry(a1.st, "running")))

\* lines 2308-2355
unpause(st, testMode, fault) ==
    IF ~st.exists THEN VMMissing(st)
    ELSE LET a0 == Acc(st, <<StateEntry(st, "paused")>>)
         IN  IF st.power # "paused"
             THEN Done(Save(a0, Info("VM is not paused")))
             ELSE IF testMode
             THEN Done(Save(a0, Info("VM set to be resumed")))
             ELSE LET a1 == Api(a0, "unpause", fault)
                  IN  IF a1.exc # "none" THEN Done(a1)
                      ELSE Done(Save(a1, StateEntry(a1.st, "running")))

\* a shutdown that kills a VM that is still up whatever the flags are
shutdownAlwaysForced(st, kw, testMode, fault) ==
    IF testMode
    THEN Done(Acc(st, <<Info(IF kw.kill THEN "VM is set to be killed"
                             ELSE "VM is set for shutdown")>>))
    ELSE IF ~st.exists
    THEN \* is_halted turns the SaltInvocationError into a passing '[SKIP] '
         Done(Acc(st, <<Entry(0, "[SKIP] ", <<"Virtual Machine does not exist!">>,
                              NoChanges)>>))
    ELSE IF st.power = "halted"
    THEN Done(Acc(st, <<StateEntry(st, "halted")>>))
    ELSE
      LET a0 == Acc(st, <<StateEntry(st, "halted")>>)
          is_halted(a) == Save(a, StateEntry(a.st, "halted"))
      IN  IF st.power = "paused"
          THEN LET a1 == Api(a0, "unpause", fault)
               IN  IF a1.exc # "none" THEN Done(a1)
                   ELSE Done(is_halted(is_halted(a1)))
          ELSE
            LET a1 == IF st.power = "transient"
                      THEN is_halted(is_halted(Run(a0, "qvm-kill", testMode, fault)))
                      ELSE a0
            IN  IF st.power = "transient" /\ a1.st.power # "halted"
                THEN Done(a1)
                ELSE
                  LET a2 == Run(a1, IF kw.kill THEN "qvm-kill" ELSE "qvm-shutdown",
                                testMode, fault)
                      a3 == is_halted(a2)
                      a4 == IF a2.st.power # "halted"
                            THEN Run(a3, "qvm-kill", testMode, fault)
                            ELSE a3
                  IN  Done(is_halted(a4))

\* lines 2081-2223.  kw = [kill, force]
shutdown(st, kw, testMode, fault) ==
    IF testMode
    THEN Done(Acc(st, <<Info(IF kw.kill THEN "VM is set to be killed"
                             ELSE "VM is set for shutdown")>>))
    ELSE IF ~st.exists
    THEN \* is_halted turns the SaltInvocationError into a passing '[SKIP] '
         Done(Acc(st, <<Entry(0, "[SKIP] ", <<"Virtual Machine does not exist!">>,
                              NoChanges)>>))
    ELSE IF st.power = "halted"
    THEN Done(Acc(st, <<StateEntry(st, "halted")>>))
    ELSE
      LET a0 == Acc(st, <<StateEntry(st, "halted")>>)
          is_halted(a) == Save(a, StateEntry(a.st, "halted"))
      IN  IF st.power = "paused"
          THEN LET a1 == Api(a0, "unpause", fault)
               IN  IF a1.exc # "none" THEN Done(a1)
                   ELSE Done(is_halted(is_halted(a1)))
          ELSE
            LET a1 == IF st.power = "transient"
                      THEN is_halted(is_halted(Run(a0, "qvm-kill", testMode, fault)))
                      ELSE a0
            IN  IF st.power = "transient" /\ a1.st.power # "halted"
                THEN Done(a1)
                ELSE
                  LET a2 == Run(a1, IF kw.kill THEN "qvm-kill" ELSE "qvm-shutdown",
                                testMode, fault)
                      a3 == is_halted(a2)
                      a4 == IF a2.st.power # "halted" /\ kw.force
                            THEN Run(a3, "qvm-kill", testMode, fault)
                            ELSE a3
                  IN  Done(is_halted(a4))

\* lines 2226-2259: shutdown with the 'kill' flag
kill(st, testMode, fault) ==
    LET o == shutdown(st, [kill |-> TRUE, force |-> FALSE], testMode, fault)
    IN  IF o.exc # "none" \/ o.entries = <<>> THEN o
        ELSE [o EXCEPT !.entries = Append(@, o.entries[Len(o.entries)])]

\* lines 1953-2078
start(st, testMode, fault) ==
    IF ~st.exists THEN VMMissing(st)
    ELSE IF st.power = "running"
    THEN Done(Acc(st, <<StateEntry(st, "running")>>))
    ELSE
      LET a0 == Acc(st, <<StateEntry(st, "running")>>)
          is_running(a) == Save(a, StateEntry(a.st, "running"))
          r  == unpause(st, testMode, fault)
          a1 == IF st.power = "paused"
                THEN [st |-> r.st,
                      entries |-> IF r.exc = "none"
                                  THEN Append(a0.entries, r.entries[Len(r.entries)])
                                  ELSE a0.entries,
                      cmds |-> r.cmds, exc |-> r.exc]
                ELSE a0
      IN  IF a1.exc # "none"
             \/ (st.power = "paused" /\ Retcode(a1.entries, "last") # 0)
          THEN Done(a1)
          ELSE IF a1.st.power = "transient" /\ testMode
          THEN Done(Save(a1, Info("'guid' will be started since in 'transient' state!")))
          ELSE
            LET a2 == IF a1.st.power = "transient"
                      THEN \* start_guid swallows its error; then is_running
                           is_running(IF "start_guid" \in fault
                                   THEN [a1 EXCEPT !.cmds = Append(@, "start_guid")]
                                   ELSE Api(a1, "start_guid", fault))
                      ELSE a1
            IN  IF a1.st.power = "transient" /\ a2.st.power # "running"
                THEN Done(a2)
                ELSE LET a3 == Run(a2, "qvm-start", testMode, fault)
                     IN  IF testMode THEN Done(a3) ELSE Done(is_running(a3))

\* remove without the return on a failed shutdown (lines 525-526 left out)
removeDespiteShutdown(st, testMode, fault) ==
    LET halted_status ==
          IF st.exists THEN StateEntry(st, "halted")
          ELSE Entry(0, "[SKIP] ", <<"Virtual Machine does not exist!">>, NoChanges)
        a0 == Acc(st, <<halted_status>>)
        r  == shutdown(st, [kill |-> FALSE, force |-> TRUE], testMode, fault)
        a1 == IF halted_status.retcode = 0 THEN a0
              ELSE [st |-> r.st,
                    entries |-> IF r.exc = "none"
                                THEN Append(a0.entries, r.entries[Len(r.entries)])
                                ELSE a0.entries,
                    cmds |-> r.cmds, exc |-> r.exc]
    IN  IF a1.exc # "none"
        THEN Done(a1)
        ELSE LET a2 == Run(a1, "qvm-remove", testMode,
                           IF st.exists THEN fault ELSE fault \cup {"qvm-remove"})
             IN  IF testMode THEN Done(a2)
                 ELSE Done(Save(a2, check(a2.st, "missing").entries[1]))

\* lines 474-536
remove(st, testMode, fault) ==
    LET halted_status ==
          IF st.exists THEN StateEntry(st, "halted")
          ELSE Entry(0, "[SKIP] ", <<"Virtual Machine does not exist!">>, NoChanges)
        a0 == Acc(st, <<halted_status>>)
        r  == shutdown(st, [kill |-> FALSE, force |-> TRUE], testMode, fault)
        a1 == IF halted_status.retcode = 0 THEN a0
              ELSE [st |-> r.st,
                    entries |-> IF r.exc = "none"
                                THEN Append(a0.entries, r.entries[Len(r.entries)])
                                ELSE a0.entries,
                    cmds |-> r.cmds, exc |-> r.exc]
    IN  IF a1.exc # "none" \/ Retcode(a1.entries, "last") # 0
        THEN Done(a1)
        ELSE LET a2 == Run(a1, "qvm-remove", testMode,
                           IF st.exists THEN fault ELSE fault \cup {"qvm-remove"})
             IN  IF testMode THEN Done(a2)
                 ELSE Done(Save(a2, check(a2.st, "missing").entries[1]))

\* a clone that does not return when the target exists (lines 597-598 left out)
cloneOverExisting(st, kw, testMode, fault) ==
    LET clone_check_status == check(st, "missing").entries[1]
        src == [st EXCEPT !.exists = TRUE, !.power = st.source]
        a0  == Acc(st, <<clone_check_status, StateEntry(src, "halted")>>)
        r   == shutdown(src, [kill |-> FALSE, force |-> TRUE], testMode, fault)
        a1  == IF st.source # "halted" /\ kw.shutdown
               THEN [st |-> [st EXCEPT !.source = r.st.power],
                     entries |-> IF r.exc = "none"
                                 THEN Append(a0.entries, r.entries[Len(r.entries)])
                                 ELSE a0.entries,
                     cmds |-> r.cmds, exc |-> r.exc]
               ELSE a0
    IN  IF a1.exc # "none"
                  \/ (st.source # "halted" /\ kw.shutdown
                      /\ Retcode(a1.entries, "last") # 0)
        THEN Done(a1)
        ELSE LET a2 == Run(a1, "qvm-clone", testMode, fault)
             IN  IF testMode THEN Done(Save(a2, Info("VM is set to be cloned")))
                 ELSE Done(Save(a2, check(a2.st, "exists").entries[1]))

\* lines 540-625: st is the VM named by 'clone' (the target); the source VM
\* exists and st.source is its power state.  kw = [shutdown]
clone(st, kw, testMode, fault) ==
    LET clone_check_status == check(st, "missing").entries[1]
        src == [st EXCEPT !.exists = TRUE, !.power = st.source]
        a0  == Acc(st, <<clone_check_status, StateEntry(src, "halted")>>)
        r   == shutdown(src, [kill |-> FALSE, force |-> TRUE], testMode, fault)
        a1  == IF st.source # "halted" /\ kw.shutdown
               THEN [st |-> [st EXCEPT !.source = r.st.power],
                     entries |-> IF r.exc = "none"
                                 THEN Append(a0.entries, r.entries[Len(r.entries)])
                                 ELSE a0.entries,
                     cmds |-> r.cmds, exc |-> r.exc]
               ELSE a0
    IN  IF clone_check_status.retcode # 0
        THEN Done(Acc(st, <<clone_check_status>>))
        ELSE IF a1.exc # "none"
                  \/ (st.source # "halted" /\ kw.shutdown
                      /\ Retcode(a1.entries, "last") # 0)
        THEN Done(a1)
        ELSE LET a2 == Run(a1, "qvm-clone", testMode, fault)
             IN  IF testMode THEN Done(Save(a2, Info("VM is set to be cloned")))
                 ELSE Done(Save(a2, check(a2.st, "exists").entries[1]))

(***************************************************************************)
(* The state layer, _states/ext_state_qvm.py.  A state function returns    *)
(* [exc, st, result, changes, comment]; exc # "none" is an exception that  *)
(* leaves the state function.                                              *)
(***************************************************************************)
Returned(st, result, changes, comment) ==
    [exc |-> "none", st |-> st, result |-> result, changes |-> changes,
     comment |-> comment, cmds |-> <<>>]

Raised(st, exc) ==
    [exc |-> exc, st |-> st, result |-> None, changes |-> NoChanges,
     comment |-> <<>>, cmds |-> <<>>]

CaughtExceptions == {"SaltInvocationError", "CommandExecutionError"}

\* _state_action: the two Salt exceptions become a failed Status; vars() of
\* anything that is not a Status object raises TypeError
state_action(o, testMode) ==
    IF o.exc \in CaughtExceptions
    THEN [Returned(o.st, "False", NoChanges, <<<<o.exc>>>>) EXCEPT !.cmds = o.cmds]
    ELSE IF o.exc # "none"
    THEN [Raised(o.st, o.exc) EXCEPT !.cmds = o.cmds]
    ELSE IF o.kind # "status"
    THEN [Raised(o.st, "TypeError") EXCEPT !.cmds = o.cmds]
    ELSE LET f == Finalize(o.entries, o.mode, testMode)
         IN  [Returned(o.st, f.result, f.changes, f.comment)
                EXCEPT !.cmds = o.cmds]

\* the '[SKIP] ' status of present, absent, clone, kill and halted
SkipStatus(st, message, testMode) ==
    LET f == Finalize(<<Entry(0, "[SKIP] ", message, NoChanges)>>, "last", testMode)
    IN  Returned(st, f.result, f.changes, f.comment)

exists(st, testMode) == state_action(check(st, "exists"), testMode)

missing(st, testMode) == state_action(check(st, "missing"), testMode)

present(st, testMode, fault) ==
    IF check(st, "exists").entries[1].retcode = 0
    THEN SkipStatus(st, <<"already exists">>, testMode)
    ELSE state_action(create(st, testMode, fault), testMode)

\* lines 2358-2375: the dict of the installed template, empty when
\* 'qvm-template info --installed' finds none
template_info(st) == IF st.template THEN "info" ELSE "{}"

\* lines 2378-2413: 'qvm-template install'; the repository and pool options
\* only add to the command line.  The command fails, or returns 0 with or
\* without the template in place
template_install(st, fault) ==
    IF "qvm-template" \in fault
    THEN [st |-> st, exc |-> "CommandExecutionError", cmds |-> <<"qvm-template">>]
    ELSE IF OnDev("noeffect", "qvm-template") \in fault
    THEN [st |-> st, exc |-> "none", cmds |-> <<"qvm-template">>]
    ELSE [st |-> [st EXCEPT !.template = TRUE], exc |-> "none",
          cmds |-> <<"qvm-template">>]

\* a template_installed that trusts the return code of the install
template_installedUnverified(st, testMode, fault) ==
    IF template_info(st) # "{}"
    THEN Returned(st, "True", NoChanges, <<<<"", "already installed">>>>)
    ELSE IF testMode
    THEN Returned(st, None, "new" :> "name", <<<<"", "would be installed">>>>)
    ELSE LET r == template_install(st, fault)
         IN  IF r.exc # "none"
             THEN [Returned(r.st, "False", NoChanges, <<<<"", r.exc>>>>)
                     EXCEPT !.cmds = r.cmds]
             ELSE [Returned(r.st, "True",
                            ("new" :> template_info(r.st)) @@ ("details" :> "stderr"),
                            <<<<"", "installed">>>>)
                     EXCEPT !.cmds = r.cmds]

\* ext_state_qvm.py lines 464-502
template_installed(st, testMode, fault) ==
    IF template_info(st) # "{}"
    THEN Returned(st, "True", NoChanges, <<<<"", "already installed">>>>)
    ELSE IF testMode
    THEN Returned(st, None, "new" :> "name", <<<<"", "would be installed">>>>)
    ELSE LET r == template_install(st, fault)
         IN  IF r.exc # "none"
             THEN [Returned(r.st, "False", NoChanges, <<<<"", r.exc>>>>)
                     EXCEPT !.cmds = r.cmds]
             ELSE IF template_info(r.st) # "{}"
             THEN [Returned(r.st, "True",
                            ("new" :> template_info(r.st)) @@ ("details" :> "stderr"),
                            <<<<"", "installed">>>>)
                     EXCEPT !.cmds = r.cmds]
             ELSE \* the comment is only annotated at line 500, and stays ''
                  [Returned(r.st, "False",
                            ("new" :> template_info(r.st)) @@ ("details" :> "stderr"),
                            <<>>)
                     EXCEPT !.cmds = r.cmds]

\* an absent that calls qvm.remove without looking first
absentAlwaysRemoves(st, testMode, fault) ==
    state_action(remove(st, testMode, fault), testMode)

\* lines 254-266
absent(st, testMode, fault) ==
    IF check(st, "missing").entries[1].retcode = 0
    THEN SkipStatus(st, <<"already missing">>, testMode)
    ELSE state_action(remove(st, testMode, fault), testMode)

\* lines 269-279: clone(name, source), st being the VM called name
state_clone(st, kw, testMode, fault) ==
    IF check(st, "exists").entries[1].retcode = 0
    THEN SkipStatus(st, <<"already exists">>, testMode)
    ELSE state_action(clone(st, kw, testMode, fault), testMode)

\* lines 211-222
state_kill(st, testMode, fault) ==
    LET halted_status == state_action(state(st, "halted"), testMode)
    IN  IF halted_status.exc = "none" /\ halted_status.result # "False"
        THEN SkipStatus(st, <<"already halted">>, testMode)
        ELSE state_action(kill(st, testMode, fault), testMode)

\* lines 167-173
running(st, testMode) == state_action(state(st, "running"), testMode)

\* a halted that does not look at stderr
haltedIgnoresStderr(st, testMode) == state_action(state(st, "halted"), testMode)

\* lines 176-190: a VM that is already halted, or a status with a message
\* on stderr (the VM is absent), is reported as '[SKIP] '
halted(st, testMode) ==
    LET halted_status == state_action(state(st, "halted"), testMode)
    IN  IF halted_status.result # "False"
        THEN SkipStatus(st, <<"already halted">>, testMode)
        ELSE IF ~st.exists
        THEN SkipStatus(st, halted_status.comment[1], testMode)
        ELSE state_action(state(st, "halted"), testMode)

\* globals()[action](name, *_varargs, **keywords)
StateFunction(action, st, kw, testMode, fault) ==
    CASE action = "exists"   -> exists(st, testMode)
      [] action = "missing"  -> missing(st, testMode)
      [] action = "present"  -> present(st, testMode, fault)
      [] action = "prefs"    -> state_action(prefs(st, kw, testMode, fault), testMode)
      [] action = "devices"  -> state_action(devices(st, kw, testMode, fault), testMode)
      [] action = "service"  -> state_action(service(st, kw, testMode, fault), testMode)
      [] action = "features" -> state_action(features(st, kw, testMode, fault), testMode)
      [] action = "tags"     -> state_action(tags(st, kw, testMode, fault), testMode)
      [] action = "firewall" -> state_action(firewall(st, kw, testMode, fault), testMode)


(***************************************************************************)
(* vm(): the sequencer of _states/ext_state_qvm.py.                        *)
(***************************************************************************)
SeqActions == {"missing", "present", "prefs", "tags"}

NoArgs == [list |-> FALSE]

\* the value of kwargs[action] in the modelled runs of vm()
VmArgs(action) ==
    CASE action = "prefs" ->
           [action |-> "set", given |-> {"memory"}, memory |-> "600",
            pci_strictreset |-> None, pcidevs |-> <<>>,
            invalid |-> {}, form |-> "kw"]
      [] action = "tags" -> [list |-> FALSE, add |-> <<"a">>, del |-> <<>>]
      [] OTHER -> NoArgs

\* what the store may refuse while a step runs
VmFaults(action) ==
    CASE action = "prefs"   -> {{}, {"setattr"}}
      [] action = "tags"    -> {{}, {OnDev("tag", "a")}}
      [] action = "present" -> {{}, {"qvm-create"}}
      [] OTHER              -> {{}}

\* an entry of the action list: 'name' (value 'fail') or {name: 'pass'}
ActionEntries ==
    [action : SeqActions, value : {"fail"}]
        \cup [action : {"missing", "prefs"}, value : {"pass"}]

ActionNames(list) == {list[i].action : i \in 1..Len(list)}

\* lines 362-369
get_action(entry) == <<entry.action, entry.value>>

\* lines 371-391: the built-in order, for the actions of SeqActions
DefaultActions ==
    [i \in 1..4 |-> [action |-> <<"missing", "present", "prefs", "tags">>[i],
                     value  |-> "fail"]]

\* a loop that walks the action list from its end
ActionAtReversed(list, i) == list[Len(list) + 1 - i]

\* line 426: for action in actions
ActionAt(list, i) == list[i]

Section(header, body) == [header |-> header, body |-> body]

SkipBody == <<<<"[SKIP] Skipping due to previous failure!">>>>

\* a sequencer that starts from True in both modes
InitialRetTrue(testMode) ==
    [result |-> "True", changes |-> NoChanges, comment |-> <<>>]

\* lines 393-396
InitialRet(testMode) ==
    [result  |-> IF testMode THEN None ELSE "True",
     changes |-> NoChanges,
     comment |-> <<>>]

\* a sequencer that lets every keyword through
UnknownKeywordsNone(kw, list) == {}

\* lines 407-408: the keywords that are no action of the list
UnknownKeywords(kw, list) == kw \ ActionNames(list)

\* lines 393-411
VmStart ==
    /\ pc = "start"
    /\ LET ret0 == InitialRet(test)
       IN  IF UnknownKeywords(kwargs, actions) # {}
           THEN \E k \in UnknownKeywords(kwargs, actions) :
                  /\ ret' = [ret0 EXCEPT
                               !.result = "False",
                               !.comment = <<Section("", <<<<"Unknown action keyword", k>>>>)>>]
                  /\ pc' = "done"
           ELSE /\ ret' = ret0
                /\ pc' = "loop"
    /\ idx' = 1
    /\ UNCHANGED <<test, store, call, status, actions, kwargs, steps>>

\* a merge that takes a failing result whatever the step's marker is
MergeIgnoresPass(r, action, action_value, s) ==
    [result  |-> IF ~Truthy(s.result) THEN s.result ELSE r.result,
     changes |-> IF s.changes # NoChanges
                 THEN (("qvm." \o action) :> s.changes) @@ r.changes
                 ELSE r.changes,
     comment |-> Append(r.comment, Section(action, s.comment))]

\* a merge that leaves out the section of a step that reports changes
MergeNoSectionOnChange(r, action, action_value, s) ==
    [result  |-> IF ~Truthy(s.result) /\ action_value # "pass"
                 THEN s.result ELSE r.result,
     changes |-> IF s.changes # NoChanges
                 THEN (("qvm." \o action) :> s.changes) @@ r.changes
                 ELSE r.changes,
     comment |-> IF s.changes # NoChanges THEN r.comment
                 ELSE Append(r.comment, Section(action, s.comment))]

\* a merge that gives every executed step a key in the changes
MergeKeyAlways(r, action, action_value, s) ==
    [result  |-> IF ~Truthy(s.result) /\ action_value # "pass"
                 THEN s.result ELSE r.result,
     changes |-> (("qvm." \o action) :> s.changes) @@ r.changes,
     comment |-> Append(r.comment, Section(action, s.comment))]

\* lines 443-459: the status of an executed step merged into ret
Merge(r, action, action_value, s) ==
    [result  |-> IF ~Truthy(s.result) /\ action_value # "pass"
                 THEN s.result ELSE r.result,
     changes |-> IF s.changes # NoChanges
                 THEN (("qvm." \o action) :> s.changes) @@ r.changes
                 ELSE r.changes,
     comment |-> Append(r.comment, Section(action, s.comment))]

\* a sequencer that runs every step whatever happened before
MayExecuteAlways(r, testMode) == TRUE

\* line 434
MayExecute(r, testMode) == Truthy(r.result) \/ testMode

\* lines 426-459: one iteration of the loop over the action list
VmStep ==
    /\ pc = "loop"
    /\ idx <= Len(actions)
    /\ LET action       == get_action(ActionAt(actions, idx))[1]
           action_value == get_action(ActionAt(actions, idx))[2]
       IN  IF action \notin kwargs
           THEN /\ idx' = idx + 1
                /\ UNCHANGED <<store, pc, ret, steps>>
           ELSE IF MayExecute(ret, test)
           THEN \E fault \in VmFaults(action) :
                  LET s == StateFunction(action, store, VmArgs(action), test, fault)
                  IN  /\ store' = s.st
                      /\ steps' = Append(steps,
                                    [action |-> action, value |-> action_value,
                                     executed |-> TRUE, result |-> s.result,
                                     exc |-> s.exc, cmds |-> s.cmds,
                                     changes |-> s.changes,
                                     pre |-> store,
                                     agg |-> IF s.exc # "none" THEN ret.result
                                             ELSE Merge(ret, action, action_value, s).result])
                      /\ IF s.exc # "none"
                         THEN /\ pc' = "raised"
                              /\ UNCHANGED <<ret, idx>>
                         ELSE /\ ret' = Merge(ret, action, action_value, s)
                              /\ idx' = idx + 1
                              /\ pc' = pc
           ELSE /\ ret' = [ret EXCEPT
                             !.comment = Append(@, Section(action, SkipBody))]
                /\ steps' = Append(steps,
                              [action |-> action, value |-> action_value,
                               executed |-> FALSE, result |-> None,
                               exc |-> "none", cmds |-> <<>>,
                               changes |-> NoChanges,
                               pre |-> store, agg |-> ret.result])
                /\ idx' = idx + 1
                /\ UNCHANGED <<store, pc>>
    /\ UNCHANGED <<test, call, status, actions, kwargs>>

\* line 461
VmReturn ==
    /\ pc = "loop"
    /\ idx > Len(actions)
    /\ pc' = "done"
    /\ UNCHANGED <<test, store, call, status, actions, kwargs, idx, ret, steps>>

NoCall == [fn |-> "none"]
NoStatus == [exc |-> "none"]

\* the keyword bags tried with an action list: all its names, all but one,
\* or all plus a keyword that is not in the list
KwargsFor(list) ==
    {ActionNames(list)}
        \cup {ActionNames(list) \ {a} : a \in ActionNames(list)}
        \cup {ActionNames(list) \cup {a} : a \in SeqActions}

InitVm ==
    /\ test \in BOOLEAN
    /\ store \in {Store0, [Store0 EXCEPT !.exists = FALSE]}
    /\ actions \in SeqsUpTo(ActionEntries, MaxActions) \cup {DefaultActions}
    /\ kwargs \in KwargsFor(actions)
    /\ pc = "start"
    /\ idx = 1
    /\ ret = [result |-> None, changes |-> NoChanges, comment |-> <<>>]
    /\ steps = <<>>
    /\ call = NoCall
    /\ status = NoStatus

NextVm == VmStart \/ VmStep \/ VmReturn

SpecVm == InitVm /\ [][NextVm]_vars

(***************************************************************************)
(* Direct calls of the module functions: one call of qvm.<fn> against a    *)
(* store, with __opts__['test'] set or not.                                *)
(***************************************************************************)
\* qvm.<fn>(vmname, **kw)
ModuleFunction(fn, st, kw, testMode, fault) ==
    CASE fn = "prefs"    -> prefs(st, kw, testMode, fault)
      [] fn = "devices"  -> devices(st, kw, testMode, fault)
      [] fn = "service"  -> service(st, kw, testMode, fault)
      [] fn = "features" -> features(st, kw, testMode, fault)
      [] fn = "tags"     -> tags(st, kw, testMode, fault)
      [] fn = "firewall" -> firewall(st, kw, testMode, fault)
      [] fn = "start"    -> start(st, testMode, fault)
      [] fn = "shutdown" -> shutdown(st, kw, testMode, fault)
      [] fn = "kill"     -> kill(st, testMode, fault)
      [] fn = "pause"    -> pause(st, testMode, fault)
      [] fn = "unpause"  -> unpause(st, testMode, fault)
      [] fn = "create"   -> create(st, testMode, fault)
      [] fn = "remove"   -> remove(st, testMode, fault)
      [] fn = "clone"    -> clone(st, kw, testMode, fault)

\* what the caller of a module function sees: the exception, or qvm.status()
Reported(o, testMode) ==
    IF o.exc # "none"
    THEN [exc |-> o.exc, kind |-> o.kind, retcode |-> 1, result |-> None,
          changes |-> NoChanges, comment |-> <<>>, cmds |-> o.cmds]
    ELSE LET f == Finalize(o.entries, o.mode, testMode)
         IN  [exc |-> "none", kind |-> o.kind, retcode |-> f.retcode,
              result |-> f.result, changes |-> f.changes, comment |-> f.comment,
              cmds |-> o.cmds]

\* the stores a call is made against
StoresPrefs ==
    {[Store0 EXCEPT !.memory = m, !.devs = d] :
        m \in {"400", "600"},
        d \in {f \in [PciIds -> StoredOpts \cup {NoDev}] :
                 /\ f["01_00.0"] \in {NoDev, NoOpts, "{nsr:'True'}"}
                 /\ f["02_00.0"] \in {NoDev, NoOpts}}}

StoresFeatures ==
    {[Store0 EXCEPT !.features["a"] = a, !.features[SvcKey("a")] = sa,
                    !.features[SvcKey("b")] = sb] :
        a \in {None, "'1'", "'x'"}, sa \in {None, "'1'", "''"},
        sb \in {None, "'1'"}}

StoresTags == {[Store0 EXCEPT !.tags = t] : t \in SUBSET Names}

StoresRules ==
    {[Store0 EXCEPT !.rules = r] :
        r \in {<<>>, <<"action=drop">>, <<"action=accept proto=tcp", "action=drop">>}}

StoresPower ==
    {[Store0 EXCEPT !.power = p, !.source = q] :
        p \in Powers, q \in {"halted", "running"}}

Stores ==
    {[Store0 EXCEPT !.exists = FALSE],
     [Store0 EXCEPT !.exists = FALSE, !.source = "running"]}
        \cup StoresPrefs \cup StoresFeatures \cup StoresTags \cup StoresRules
        \cup StoresPower \cup {[Store0 EXCEPT !.template = TRUE]}

\* the arguments of the calls
NameLists == SeqsUpTo(Names, MaxList)

\* get with no name at all is not a call of the get form
GetNothing ==
    {[action |-> "get", given |-> {}, memory |-> Absent,
      pci_strictreset |-> None, pcidevs |-> <<>>,
      invalid |-> {}, form |-> f] : f \in {"kw", "positional"}}

PrefsArgs ==
    {[action |-> "list", given |-> {}, memory |-> Absent,
      pci_strictreset |-> None, pcidevs |-> <<>>,
      invalid |-> {}, form |-> "kw"]}
    \cup
    {[action |-> "set", given |-> g,
      memory |-> IF "memory" \in g THEN m ELSE Absent,
      pci_strictreset |-> IF "pci_strictreset" \in g THEN p ELSE None,
      pcidevs |-> IF "pcidevs" \in g THEN d ELSE <<>>,
      invalid |-> {}, form |-> "kw"] :
        g \in SUBSET Range(PropOrder) \ {{}},
        m \in {"400", "600", "'600'"},
        p \in {"True", "False"},
        d \in SeqsUpTo(UserDevs, MaxDevs)}
    \cup  \* get, by keyword (get=[...]) or by positional names
    ({[action |-> "get", given |-> g,
      memory |-> IF "memory" \in g THEN Null ELSE Absent,
      pci_strictreset |-> IF "pci_strictreset" \in g THEN Null ELSE None,
      pcidevs |-> <<>>,
      invalid |-> v, form |-> f] :
        g \in {x \in SUBSET Range(PropOrder) : Cardinality(x) < 3},
        v \in SUBSET UnknownNames,
        f \in {"kw", "positional"}} \ GetNothing)
    \cup  \* set with a name that is no property
    {[action |-> "set", given |-> {"memory"}, memory |-> m,
      pci_strictreset |-> None, pcidevs |-> <<>>,
      invalid |-> UnknownNames, form |-> "kw"] : m \in {"400", "600"}}

DevicesArgs ==
    {kw \in [list   : BOOLEAN,
             attach : SeqsUpTo([dev : PciIds, options : UserOpts], MaxDevs),
             detach : SeqsUpTo(PciIds, MaxDevs)] :
        /\ Len(kw.attach) + Len(kw.detach) <= MaxDevs
        /\ kw.list => (kw.attach = <<>> /\ kw.detach = <<>>)}

ServiceArgs ==
    {kw \in [list : BOOLEAN, enable : NameLists, disable : NameLists,
             default : NameLists] :
        /\ Len(kw.enable) + Len(kw.disable) + Len(kw.default) <= MaxList
        /\ kw.list => (kw.enable = <<>> /\ kw.disable = <<>> /\ kw.default = <<>>)}

FeaturesArgs ==
    {kw \in [list : BOOLEAN, enable : NameLists, disable : NameLists,
             default : NameLists,
             set : SeqsUpTo([name : {"a"}, value : SetValues \cup {None}], 1)] :
        /\ Len(kw.enable) + Len(kw.disable) + Len(kw.default) + Len(kw.set)
              <= MaxList
        /\ kw.list => (kw.enable = <<>> /\ kw.disable = <<>>
                       /\ kw.default = <<>> /\ kw.set = <<>>)}

TagsArgs ==
    {kw \in [list : BOOLEAN, add : NameLists, del : NameLists] :
        /\ Len(kw.add) + Len(kw.del) <= MaxList
        /\ kw.list => (kw.add = <<>> /\ kw.del = <<>>)}

FirewallArgs ==
    {kw \in [list : BOOLEAN, set : SeqsUpTo(UserRules, MaxRules)] :
        kw.list => kw.set = <<>>}

\* the mutator calls the store may refuse during a call
Faults(fn) ==
    CASE fn = "prefs"    -> {{}, {"setattr"}, {OnDev("attach", "02_00.0")}}
      [] fn = "devices"  -> {{}, {OnDev("attach", "01_00.0")},
                             {OnDev("detach", "01_00.0")}}
      [] fn = "service"  -> {{}, {OnDev("feature", SvcKey("a"))}}
      [] fn = "features" -> {{}, {OnDev("feature", "a")}}
      [] fn = "tags"     -> {{}, {OnDev("tag", "a")}}
      [] fn = "firewall" -> {{}, {"firewall"}}
      [] fn = "start"    -> {{}, {"qvm-start"}, {"start_guid"}, {"unpause"},
                             {OnDev("noeffect", "qvm-start")}}
      [] fn = "shutdown" -> {{}, {"qvm-shutdown"}, {"qvm-kill"},
                             {"qvm-shutdown", "qvm-kill"}, {"unpause"},
                             {OnDev("noeffect", "qvm-shutdown")},
                             {OnDev("noeffect", "qvm-shutdown"),
                              OnDev("noeffect", "qvm-kill")}}
      [] fn = "kill"     -> {{}, {"qvm-kill"}}
      [] fn = "pause"    -> {{}, {"pause"}, {OnDev("noeffect", "pause")}}
      [] fn = "unpause"  -> {{}, {"unpause"}, {OnDev("noeffect", "unpause")}}
      [] fn = "create"   -> {{}, {"qvm-create"}, {OnDev("noeffect", "qvm-create")}}
      [] fn = "template_installed" ->
             {{}, {"qvm-template"}, {OnDev("noeffect", "qvm-template")}}
      [] fn = "remove"   -> {{}, {"qvm-remove"}, {"qvm-shutdown"},
                             {"qvm-shutdown", "qvm-kill"},
                             {OnDev("noeffect", "qvm-remove")}}
      [] fn = "clone"    -> {{}, {"qvm-clone"}, {"qvm-shutdown", "qvm-kill"},
                             {OnDev("noeffect", "qvm-clone")}}

\* one call: the store it leaves, what was called, what the caller sees
Called(fn, kw, fault, o) ==
    /\ store' = o.st
    /\ call' = [fn |-> fn, kw |-> kw, pre |-> store, fault |-> fault]
    /\ status' = Reported(o, test)

CallPrefs ==
    /\ pc = "ops" /\ call.fn = "none"
    /\ \E kw \in PrefsArgs, fault \in Faults("prefs") : Called("prefs", kw, fault,
                prefs(store, kw, test, fault))
    /\ UNCHANGED <<test, pc, actions, kwargs, idx, ret, steps>>

CallDevices ==
    /\ pc = "ops" /\ call.fn = "none"
    /\ \E kw \in DevicesArgs, fault \in Faults("devices") :
         Called("devices", kw, fault,
                devices(store, kw, test, fault))
    /\ UNCHANGED <<test, pc, actions, kwargs, idx, ret, steps>>

CallService ==
    /\ pc = "ops" /\ call.fn = "none"
    /\ \E kw \in ServiceArgs, fault \in Faults("service") :
         Called("service", kw, fault,
                service(store, kw, test, fault))
    /\ UNCHANGED <<test, pc, actions, kwargs, idx, ret, steps>>

CallFeatures ==
    /\ pc = "ops" /\ call.fn = "none"
    /\ \E kw \in FeaturesArgs, fault \in Faults("features") :
         Called("features", kw, fault,
                features(store, kw, test, fault))
    /\ UNCHANGED <<test, pc, actions, kwargs, idx, ret, steps>>

CallTags ==
    /\ pc = "ops" /\ call.fn = "none"
    /\ \E kw \in TagsArgs, fault \in Faults("tags") : Called("tags", kw, fault,
                tags(store, kw, test, fault))
    /\ UNCHANGED <<test, pc, actions, kwargs, idx, ret, steps>>

CallFirewall ==
    /\ pc = "ops" /\ call.fn = "none"
    /\ \E kw \in FirewallArgs, fault \in Faults("firewall") :
         Called("firewall", kw, fault,
                firewall(store, kw, test, fault))
    /\ UNCHANGED <<test, pc, actions, kwargs, idx, ret, steps>>

CallStart ==
    /\ pc = "ops" /\ call.fn = "none"
    /\ \E fault \in Faults("start") : Called("start", NoArgs, fault,
                start(store, test, fault))
    /\ UNCHANGED <<test, pc, actions, kwargs, idx, ret, steps>>

CallShutdown ==
    /\ pc = "ops" /\ call.fn = "none"
    /\ \E kw \in [kill : BOOLEAN, force : BOOLEAN], fault \in Faults("shutdown") :
         Called("shutdown", kw, fault,
                shutdown(store, kw, test, fault))
    /\ UNCHANGED <<test, pc, actions, kwargs, idx, ret, steps>>

CallKill ==
    /\ pc = "ops" /\ call.fn = "none"
    /\ \E fault \in Faults("kill") : Called("kill", NoArgs, fault,
                kill(store, test, fault))
    /\ UNCHANGED <<test, pc, actions, kwargs, idx, ret, steps>>

CallPause ==
    /\ pc = "ops" /\ call.fn = "none"
    /\ \E fault \in Faults("pause") : Called("pause", NoArgs, fault,
                pause(store, test, fault))
    /\ UNCHANGED <<test, pc, actions, kwargs, idx, ret, steps>>

CallUnpause ==
    /\ pc = "ops" /\ call.fn = "none"
    /\ \E fault \in Faults("unpause") : Called("unpause", NoArgs, fault,
                unpause(store, test, fault))
    /\ UNCHANGED <<test, pc, actions, kwargs, idx, ret, steps>>

CallCreate ==
    /\ pc = "ops" /\ call.fn = "none"
    /\ \E fault \in Faults("create") : Called("create", NoArgs, fault,
                create(store, test, fault))
    /\ UNCHANGED <<test, pc, actions, kwargs, idx, ret, steps>>

CallRemove ==
    /\ pc = "ops" /\ call.fn = "none"
    /\ \E fault \in Faults("remove") : Called("remove", NoArgs, fault,
                remove(store, test, fault))
    /\ UNCHANGED <<test, pc, actions, kwargs, idx, ret, steps>>

CallClone ==
    /\ pc = "ops" /\ call.fn = "none"
    /\ \E kw \in [shutdown : BOOLEAN], fault \in Faults("clone") :
         Called("clone", kw, fault,
                clone(store, kw, test, fault))
    /\ UNCHANGED <<test, pc, actions, kwargs, idx, ret, steps>>

\* the same call made once more on the store the first one left, nothing
\* else having touched the store in between
Again(fn, o) ==
    /\ store' = o.st
    /\ call' = [call EXCEPT !.fn = fn, !.pre = store]
    /\ status' = Reported(o, test)

AgainPrefs ==
    /\ pc = "ops" /\ call.fn = "prefs" /\ status.exc = "none"
    /\ Again("prefs.again", prefs(store, call.kw, test, call.fault))
    /\ UNCHANGED <<test, pc, actions, kwargs, idx, ret, steps>>

AgainTags ==
    /\ pc = "ops" /\ call.fn = "tags" /\ status.exc = "none"
    /\ Again("tags.again", tags(store, call.kw, test, call.fault))
    /\ UNCHANGED <<test, pc, actions, kwargs, idx, ret, steps>>

AgainService ==
    /\ pc = "ops" /\ call.fn = "service" /\ status.exc = "none" /\ ~test
    /\ Again("service.again", service(store, call.kw, test, call.fault))
    /\ UNCHANGED <<test, pc, actions, kwargs, idx, ret, steps>>

AgainFeatures ==
    /\ pc = "ops" /\ call.fn = "features" /\ status.exc = "none" /\ ~test
    /\ Again("features.again", features(store, call.kw, test, call.fault))
    /\ UNCHANGED <<test, pc, actions, kwargs, idx, ret, steps>>

AgainFirewall ==
    /\ pc = "ops" /\ call.fn = "firewall" /\ status.exc = "none" /\ ~test
    /\ Again("firewall.again", firewall(store, call.kw, test, call.fault))
    /\ UNCHANGED <<test, pc, actions, kwargs, idx, ret, steps>>

\* a state function called directly: what it leaves and what it returns
StateCalled(fn, kw, fault, s) ==
    /\ store' = s.st
    /\ call' = [fn |-> fn, kw |-> kw, pre |-> store, fault |-> fault]
    /\ status' = [exc |-> s.exc, result |-> s.result, changes |-> s.changes,
                  comment |-> s.comment, cmds |-> s.cmds]

CallStatePresent ==
    /\ pc = "ops" /\ call.fn = "none"
    /\ \E fault \in Faults("create") :
         StateCalled("state.present", NoArgs, fault, present(store, test, fault))
    /\ UNCHANGED <<test, pc, actions, kwargs, idx, ret, steps>>

CallStateTemplateInstalled ==
    /\ pc = "ops" /\ call.fn = "none"
    /\ \E fault \in Faults("template_installed") :
         StateCalled("state.template_installed", NoArgs, fault,
                     template_installed(store, test, fault))
    /\ UNCHANGED <<test, pc, actions, kwargs, idx, ret, steps>>

CallStateAbsent ==
    /\ pc = "ops" /\ call.fn = "none"
    /\ \E fault \in Faults("remove") :
         StateCalled("state.absent", NoArgs, fault, absent(store, test, fault))
    /\ UNCHANGED <<test, pc, actions, kwargs, idx, ret, steps>>

CallStateClone ==
    /\ pc = "ops" /\ call.fn = "none"
    /\ \E kw \in [shutdown : BOOLEAN], fault \in Faults("clone") :
         StateCalled("state.clone", kw, fault,
                     state_clone(store, kw, test, fault))
    /\ UNCHANGED <<test, pc, actions, kwargs, idx, ret, steps>>

CallStateKill ==
    /\ pc = "ops" /\ call.fn = "none"
    /\ \E fault \in Faults("kill") :
         StateCalled("state.kill", NoArgs, fault, state_kill(store, test, fault))
    /\ UNCHANGED <<test, pc, actions, kwargs, idx, ret, steps>>

\* the state functions that only hand the call on to the module function of
\* the same name (ext_state_qvm.py 193-208, 225-236, 290-330), and remove
PassThrough ==
    {"start", "shutdown", "pause", "unpause", "remove", "prefs", "devices",
     "service", "features", "tags", "firewall"}

\* the arguments such a call is made with
StateArgs(fn) ==
    CASE fn = "prefs" ->
           {kw \in PrefsArgs : /\ kw.given \in {{}, {"memory"}}
                               /\ kw.memory \in {Absent, Null, "600"}
                               /\ kw.form = "kw"}
      [] fn = "devices" ->
           {kw \in DevicesArgs : Len(kw.attach) + Len(kw.detach) = 1
                                   /\ \A i \in 1..Len(kw.attach) :
                                         kw.attach[i].options = NoOpts}
      [] fn = "service" ->
           {kw \in ServiceArgs : kw.disable = <<>> /\ kw.default = <<>>
                                   /\ Len(kw.enable) = 1}
      [] fn = "features" ->
           {kw \in FeaturesArgs : kw.disable = <<>> /\ kw.default = <<>>
                                    /\ kw.set = <<>> /\ Len(kw.enable) = 1}
      [] fn = "tags" -> {kw \in TagsArgs : kw.del = <<>> /\ Len(kw.add) = 1}
      [] fn = "firewall" -> {kw \in FirewallArgs : Len(kw.set) = 1}
      [] fn = "shutdown" -> {[kill |-> FALSE, force |-> FALSE]}
      [] OTHER -> {NoArgs}

CallStateExists ==
    /\ pc = "ops" /\ call.fn = "none"
    /\ StateCalled("state.exists", NoArgs, {}, exists(store, test))
    /\ UNCHANGED <<test, pc, actions, kwargs, idx, ret, steps>>

CallStateMissing ==
    /\ pc = "ops" /\ call.fn = "none"
    /\ StateCalled("state.missing", NoArgs, {}, missing(store, test))
    /\ UNCHANGED <<test, pc, actions, kwargs, idx, ret, steps>>

CallStateRunning ==
    /\ pc = "ops" /\ call.fn = "none"
    /\ StateCalled("state.running", NoArgs, {}, running(store, test))
    /\ UNCHANGED <<test, pc, actions, kwargs, idx, ret, steps>>

CallStateHalted ==
    /\ pc = "ops" /\ call.fn = "none"
    /\ StateCalled("state.halted", NoArgs, {}, halted(store, test))
    /\ UNCHANGED <<test, pc, actions, kwargs, idx, ret, steps>>

\* _state_action('qvm.<fn>', name, ...)
CallStatePassThrough ==
    /\ pc = "ops" /\ call.fn = "none"
    /\ \E fn \in PassThrough :
         \E kw \in StateArgs(fn) :
            StateCalled("state." \o fn, kw, {},
                        state_action(ModuleFunction(fn, store, kw, test, {}), test))
    /\ UNCHANGED <<test, pc, actions, kwargs, idx, ret, steps>>

InitOps ==
    /\ test \in BOOLEAN
    /\ store \in Stores
    /\ call = NoCall
    /\ status = NoStatus
    /\ pc = "ops"
    /\ actions = <<>>
    /\ kwargs = {}
    /\ idx = 1
    /\ ret = [result |-> None, changes |-> NoChanges, comment |-> <<>>]
    /\ steps = <<>>

NextOps ==
    \/ CallPrefs
    \/ CallDevices
    \/ CallService
    \/ CallFeatures
    \/ CallTags
    \/ CallFirewall
    \/ CallStart
    \/ CallShutdown
    \/ CallKill
    \/ CallPause
    \/ CallUnpause
    \/ CallCreate
    \/ CallRemove
    \/ CallClone
    \/ CallStatePresent
    \/ CallStateAbsent
    \/ CallStateTemplateInstalled
    \/ CallStateClone
    \/ CallStateKill
    \/ AgainPrefs
    \/ AgainTags
    \/ AgainService
    \/ AgainFeatures
    \/ AgainFirewall
    \/ CallStateExists
    \/ CallStateMissing
    \/ CallStateRunning
    \/ CallStateHalted
    \/ CallStatePassThrough

SpecOps == InitOps /\ [][NextOps]_vars

(***************************************************************************)
(* Several invocations of one reconciliation against one VM.  An           *)
(* invocation reads the store (its check) and then acts on what it read;   *)
(* nothing in the functions holds the store between the two, so the steps  *)
(* of the invocations may interleave.  steps logs the mutations attempted. *)
(***************************************************************************)
MaxCalls == 2          \* number of invocations of the one reconciliation

Invocations == 1..MaxCalls

Reconciliations == {"present", "service"}

EnableA == [list |-> FALSE, enable |-> <<"a">>, disable |-> <<>>, default |-> <<>>]

\* state function fn run on the store as the invocation read it
Reconcile(fn, seen, testMode) ==
    CASE fn = "present" -> present(seen, testMode, {})
      [] fn = "service" -> state_action(service(seen, EnableA, testMode, {}), testMode)

\* the invocation issues qvm-create or sets the service feature
Mutates(fn, seen, testMode) ==
    LET s == Reconcile(fn, seen, testMode)
    IN  s.cmds # <<>> \/ s.st # seen

\* the reads of invocation p: qvm-check (lines 241-247), args.vm.features
\* (lines 1289-1290)
InvocationChecks(p) ==
    /\ pc = "race" /\ call.at[p] = "idle"
    /\ call' = [call EXCEPT !.at[p] = "checked", !.seen[p] = store]
    /\ UNCHANGED <<test, store, status, pc, actions, kwargs, idx, ret, steps>>

\* the rest of invocation p: qvm-create (line 468) or the assignment of the
\* feature (line 1340) when what it read differs from the desired state
InvocationActs(p) ==
    /\ pc = "race" /\ call.at[p] = "checked"
    /\ call' = [call EXCEPT !.at[p] = "done"]
    /\ IF Mutates(call.fn, call.seen[p], test)
       THEN /\ steps' = Append(steps, [by |-> p, fn |-> call.fn])
            /\ store' = Reconcile(call.fn, call.seen[p], test).st
       ELSE UNCHANGED <<store, steps>>
    /\ UNCHANGED <<test, status, pc, actions, kwargs, idx, ret>>

StoresRace ==
    {[Store0 EXCEPT !.exists = e, !.features[SvcKey("a")] = sa] :
        e \in BOOLEAN, sa \in {None, "'1'", "''"}}

InitRace ==
    /\ test \in BOOLEAN
    /\ store \in StoresRace
    /\ \E fn \in Reconciliations :
         call = [fn |-> fn, at |-> [p \in Invocations |-> "idle"],
                 seen |-> [p \in Invocations |-> store]]
    /\ status = NoStatus
    /\ pc = "race"
    /\ actions = <<>>
    /\ kwargs = {}
    /\ idx = 1
    /\ ret = [result |-> None, changes |-> NoChanges, comment |-> <<>>]
    /\ steps = <<>>

NextRace ==
    \/ \E p \in Invocations : InvocationChecks(p)
    \/ \E p \in Invocations : InvocationActs(p)

SpecRace == InitRace /\ [][NextRace]_vars

(***************************************************************************)
(* Properties of vm().                                                     *)
(***************************************************************************)
\* the steps of the action list that vm() handles, in list order
Handled == SelectSeq(actions, LAMBDA e : e.action \in kwargs)

AllKnown == kwargs \subseteq ActionNames(actions)

\* step i was executed, returned a failing result and is not marked 'pass'
Failed(i) ==
    /\ steps[i].executed
    /\ steps[i].exc = "none"
    /\ steps[i].result = "False"
    /\ steps[i].value # "pass"

\* step i was executed, returned a failing result and is marked 'pass'
FailedPass(i) ==
    /\ steps[i].executed
    /\ steps[i].exc = "none"
    /\ steps[i].result = "False"
    /\ steps[i].value = "pass"

AggBefore(i) == IF i = 1 THEN InitialRet(test).result ELSE steps[i - 1].agg

\* C1: in a run that is not a test run, once a step that is not marked
\* 'pass' has failed, every later step named in both the action list and
\* the keyword bag is not executed, puts the line
\* '[SKIP] Skipping due to previous failure!' under its own header, and the
\* value vm() returns is False.
C1_ShortCircuit ==
    ~test =>
        \A i \in 1..Len(steps) :
            Failed(i) =>
                /\ \A j \in (i + 1)..Len(steps) :
                       /\ ~steps[j].executed
                       /\ ret.comment[j] = Section(steps[j].action, SkipBody)
                /\ pc = "done" =>
                       /\ ret.result = "False"
                       /\ Len(steps) = Len(Handled)
                       /\ \A j \in 1..Len(steps) :
                              steps[j].action = Handled[j].action

C1_Witness ==
    /\ ~test
    /\ pc = "done"
    /\ Len(steps) = 3
    /\ Failed(1)
    /\ ~steps[2].executed
    /\ ~steps[3].executed
    /\ ret.result = "False"

\* C2 (as stated): in every run of vm(), test run or not, no step taken
\* after the aggregate result became False changes the VM store.
C2_NoMutationAfterFailure ==
    [][(pc = "loop" /\ ret.result = "False") => store' = store]_vars

\* C3 (as stated): when an executed step that is not marked 'pass' returned
\* False, vm() returns False, whatever the later steps return, test run or
\* not.
C3_FailureIsKept ==
    (pc = "done" /\ \E i \in 1..Len(steps) : Failed(i))
        => ret.result = "False"

\* C4: a failing step marked 'pass' leaves the aggregate result as it was,
\* so the step after it is still executed, and when no step without the
\* marker fails the value vm() returns is not False.
C4_PassIsIgnored ==
    \A i \in 1..Len(steps) :
        FailedPass(i) =>
            /\ steps[i].agg = AggBefore(i)
            /\ i < Len(steps) => steps[i + 1].executed
            /\ (pc = "done" /\ \A j \in 1..Len(steps) : ~Failed(j))
                   => ret.result # "False"

C4_Witness ==
    /\ pc = "done"
    /\ ~test
    /\ Len(steps) >= 2
    /\ FailedPass(1)
    /\ steps[2].executed
    /\ store # Store0
    /\ ret.result = "True"

\* C5: the aggregate result is True at the start of a run that is not a
\* test run and None at the start of a test run, and a test run never
\* returns True.
C5_InitialResult ==
    /\ (pc = "loop" /\ steps = <<>>) =>
           ret.result = (IF test THEN None ELSE "True")
    /\ (test /\ pc \in {"loop", "done"}) => ret.result # "True"

C5_Witness ==
    /\ test
    /\ pc = "done"
    /\ Len(steps) >= 2
    /\ \A j \in 1..Len(steps) : steps[j].executed
    /\ ret.result = None

\* C6: when every keyword is known, the comment vm() returns has exactly
\* one header per step named in both the action list and the keyword bag,
\* in the order of the action list.
C6_Headers ==
    (pc = "done" /\ AllKnown) =>
        /\ Len(ret.comment) = Len(Handled)
        /\ \A i \in 1..Len(Handled) :
               ret.comment[i].header = Handled[i].action

C6_Witness ==
    /\ pc = "done"
    /\ AllKnown
    /\ Len(Handled) = 3
    /\ Len(Handled) < Len(actions) + 1
    /\ \E i \in 1..3 : steps[i].executed /\ steps[i].result = "True"
    /\ \E i \in 1..3 : ~steps[i].executed

\* C7 (as stated): no exception leaves vm(); whatever error the module call
\* of a step produces is reported as a failing step.
C7_NeverRaises == pc # "raised"

\* C12: with test mode on and the VM absent, vm() with the single step
\* 'present' returns result None, runs no creation, and the VM is still
\* absent afterwards.
C12_PresentTestMode ==
    (/\ test
     /\ pc = "done"
     /\ Len(actions) = 1
     /\ actions[1].action = "present"
     /\ kwargs = {"present"}
     /\ ~steps[1].pre.exists) =>
        /\ ret.result = None
        /\ steps[1].executed
        /\ steps[1].cmds = <<>>
        /\ ~store.exists

C12_Witness ==
    /\ test
    /\ pc = "done"
    /\ actions = <<[action |-> "present", value |-> "fail"]>>
    /\ kwargs = {"present"}
    /\ ~steps[1].pre.exists
    /\ ret.result = None
    /\ ~store.exists

(***************************************************************************)
(* Properties of the module functions in test mode.                        *)
(***************************************************************************)
SetOps == {"service", "features", "tags", "firewall"}

\* what a run that is not a test run reports for the same call from the same
\* store, when the store refuses nothing
NonTestRun == Reported(ModuleFunction(call.fn, call.pre, call.kw, FALSE, {}), FALSE)

\* C8 (as stated): in test mode, prefs asked to set a property whose current
\* value differs from the requested one calls no mutator of the store (no
\* setattr, no delattr, no PCI attach or detach), and the status it returns
\* still carries the changes entry of that property.
C8_PrefsTestMode ==
    (/\ test
     /\ call.fn = "prefs"
     /\ call.kw.action = "set"
     /\ call.pre.exists
     /\ "memory" \in call.kw.given
     /\ call.kw.memory # call.pre.memory) =>
        /\ store = call.pre
        /\ status.exc = "none"
        /\ "memory" \in DOMAIN status.changes

\* C9 (as stated): in test mode, service, features, tags and firewall leave
\* the store as it was and report the changes that a run that is not a test
\* run reports from the same store with the same arguments.
C9_SetOpsTestMode ==
    (test /\ call.fn \in SetOps) =>
        /\ store = call.pre
        /\ status.exc = NonTestRun.exc
        /\ status.changes = NonTestRun.changes

\* C10 (as stated): in test mode, devices attaches and detaches nothing.
C10_DevicesTestMode ==
    (test /\ call.fn = "devices") => store.devs = call.pre.devs

(***************************************************************************)
(* Properties of the power and lifecycle operations.                       *)
(***************************************************************************)
LifecycleOps ==
    {"start", "shutdown", "kill", "pause", "unpause", "create", "remove", "clone"}

\* C11: in test mode, start, shutdown, kill, pause, unpause, create, remove
\* and clone leave the power state and the existence of the VM (and of the
\* VM a clone is made from) as they were, and execute no command and no
\* pause, unpause or start_guid call.
C11_LifecycleTestMode ==
    (test /\ call.fn \in LifecycleOps) =>
        /\ store = call.pre
        /\ status.cmds = <<>>

C11_Witness ==
    /\ test
    /\ call.fn = "start"
    /\ call.pre.power = "paused"
    /\ status.exc = "none"
    /\ status.retcode = 0
    /\ store.power = "paused"

\* the desired state of the call already holds in the store it is made on
AlreadySatisfied ==
    \/ call.fn = "state.present" /\ call.pre.exists
    \/ call.fn = "state.absent" /\ ~call.pre.exists
    \/ call.fn = "state.clone" /\ call.pre.exists
    \/ call.fn = "state.kill" /\ call.pre.exists /\ call.pre.power = "halted"

\* C13: present on an existing VM, absent on a missing VM, clone onto an
\* existing target and kill on a halted VM return a passing '[SKIP] ' status
\* and run no command; the module's start on a running VM and shutdown on a
\* halted VM return without running their command.  The store is untouched.
C13_AlreadySatisfiedSkips ==
    /\ AlreadySatisfied =>
          /\ status.exc = "none"
          /\ status.result # "False"
          /\ Len(status.comment) = 1
          /\ status.comment[1][1] = "[SKIP] "
          /\ status.cmds = <<>>
          /\ store = call.pre
    /\ (/\ call.fn \in {"start", "shutdown"}
        /\ call.pre.exists
        /\ call.pre.power = (IF call.fn = "start" THEN "running" ELSE "halted")) =>
          /\ status.exc = "none"
          /\ status.retcode = 0
          /\ status.cmds = <<>>
          /\ store = call.pre

C13_Witness ==
    /\ ~test
    /\ call.fn = "state.absent"
    /\ ~call.pre.exists
    /\ call.fault = {"qvm-remove"}
    /\ status.result = "True"
    /\ status.comment[1][1] = "[SKIP] "

(***************************************************************************)
(* Properties of qvm.prefs.                                                *)
(***************************************************************************)
\* the value prefs reads for a property from the store the call is made on
PrefCurrent(st, k) ==
    CASE k = "memory" -> st.memory
      [] k = "pci_strictreset" ->
            IF \A d \in Attached(st) : ~Truthy(OptGet(st.devs[d]))
            THEN "True" ELSE "False"
      [] k = "pcidevs" ->
            [j \in 1..Len(AttachedSeq(st)) |-> ToUser(AttachedSeq(st)[j])]

\* the value the caller asks for
PrefDesired(kw, k) ==
    CASE k = "memory" -> kw.memory
      [] k = "pci_strictreset" -> kw.pci_strictreset
      [] k = "pcidevs" -> kw.pcidevs

\* the status has a '[SKIP] ' line for the property
PrefSkipped(k) ==
    \E i \in 1..Len(status.comment) :
        status.comment[i][1] = "[SKIP] " /\ status.comment[i][2] = k

\* the part of the store a property stands for is as it was before the call
PrefUntouched(k) ==
    IF k = "memory" THEN store.memory = call.pre.memory
    ELSE store.devs = call.pre.devs

PrefsSetCall ==
    /\ call.fn = "prefs"
    /\ call.pre.exists
    /\ PrefsAction(call.kw) = "set"

\* C14 (as stated): in a prefs set that the store does not refuse, every
\* selected property whose current value equals the desired one gets a
\* '[SKIP] ' line, is not mutated and has no change entry; every other
\* selected property has changes[name] = {old: current, new: desired}.
C14_PrefsSetPerProperty ==
    (PrefsSetCall /\ call.fault = {}) =>
        /\ status.exc = "none"
        /\ \A k \in call.kw.given :
              IF PrefCurrent(call.pre, k) = PrefDesired(call.kw, k)
              THEN /\ PrefSkipped(k)
                   /\ k \notin DOMAIN status.changes
                   /\ PrefUntouched(k)
              ELSE /\ k \in DOMAIN status.changes
                   /\ status.changes[k] = [old |-> PrefCurrent(call.pre, k),
                                           new |-> PrefDesired(call.kw, k)]

\* C15 (as stated): a prefs set that is not a test run, made a second time
\* with the same arguments on the store the first run left, records no
\* change and reports every selected property as '[SKIP] ' (stated for the
\* second runs that pass).
C15_PrefsIdempotent ==
    (/\ ~test
     /\ call.fn = "prefs.again"
     /\ PrefsAction(call.kw) = "set"
     /\ call.fault = {}
     /\ status.exc = "none"
     /\ status.retcode = 0) =>
        /\ status.changes = NoChanges
        /\ \A k \in call.kw.given : PrefSkipped(k)

\* the line prefs reports for a property
PrefsLine(st, k) ==
    IF k = "pcidevs" THEN <<"", k>> \o PrefCurrent(st, k)
    ELSE <<"", k, PrefCurrent(st, k)>>

\* C16: a prefs call with action get, or list with no property given, adds
\* the 'name: value' line of every property it selects (all of them for
\* list) and leaves the store exactly as it was; it makes no call the store
\* could refuse and records no change.
C16_PrefsReportOnly ==
    (/\ call.fn = "prefs"
     /\ call.pre.exists
     /\ \/ call.kw.action = "get"
        \/ call.kw.action = "list" /\ call.kw.given = {}) =>
        /\ status.exc = "none"
        /\ store = call.pre
        /\ status.changes = NoChanges
        /\ \A k \in Range(Selected(call.kw)) :
              \E i \in 1..Len(status.comment) :
                  status.comment[i] = PrefsLine(call.pre, k)

C16_Witness ==
    /\ call.fn = "prefs"
    /\ call.pre.exists
    /\ call.kw.action = "get"
    /\ call.kw.given = {"memory", "pcidevs"}
    /\ call.fault = {"setattr"}
    /\ Attached(call.pre) # {}
    /\ status.retcode = 0
    /\ Len(status.comment) = 2
    /\ store = call.pre

\* the same call without the names that are no property
WithoutInvalid == prefs(call.pre, [call.kw EXCEPT !.invalid = {}], test, call.fault)

InvalidLine(r) == <<"", r, "Invalid key!">>

\* C17 (as stated): a prefs call that names something that is no property
\* raises nothing, has the failing line '<name>: Invalid key!' for it, and
\* treats every other key as the call without that name does: the same
\* store, the same changes and the same other lines.
C17_InvalidKey ==
    (/\ call.fn = "prefs"
     /\ call.pre.exists
     /\ call.kw.invalid # {}
     /\ call.fault = {}) =>
        /\ status.exc = "none"
        /\ status.retcode = 1
        /\ \A r \in call.kw.invalid :
              \E i \in 1..Len(status.comment) : status.comment[i] = InvalidLine(r)
        /\ store = WithoutInvalid.st
        /\ status.changes = Reported(WithoutInvalid, test).changes
        /\ SelectSeq(status.comment,
                     LAMBDA c : c \notin {InvalidLine(r) : r \in call.kw.invalid})
              = Reported(WithoutInvalid, test).comment

\* C18 (as stated): a prefs set whose desired memory denotes the current
\* value, whether written as an integer or as a string, and that returns,
\* reports memory as '[SKIP] ' and records no change for it.
C18_PrefsNormalizesTypes ==
    (/\ PrefsSetCall
     /\ call.fault = {}
     /\ "memory" \in call.kw.given
     /\ IntOf(call.kw.memory) = call.pre.memory
     /\ status.exc = "none") =>
        /\ PrefSkipped("memory")
        /\ "memory" \notin DOMAIN status.changes

(***************************************************************************)
(* Properties of the set operations service, features and tags.            *)
(***************************************************************************)
\* the first occurrence of every name of a list, in the order of the list
RECURSIVE FirstSeen(_)
FirstSeen(list) ==
    IF list = <<>> THEN <<>>
    ELSE LET front == FirstSeen(SubSeq(list, 1, Len(list) - 1))
             x     == list[Len(list)]
         IN  IF x \in Range(front) THEN front ELSE Append(front, x)

\* the action lists of the call, in the order the pass goes over them,
\* before and after the pass
ListsGiven ==
    IF call.fn = "tags" THEN call.kw.del \o call.kw.add
    ELSE call.kw.default \o call.kw.disable \o call.kw.enable

ListsKept ==
    IF call.fn = "tags"
    THEN LET d == Dedup2(call.kw.del, call.kw.add) IN d.del \o d.add
    ELSE LET d == Dedup3(call.kw.default, call.kw.disable, call.kw.enable)
         IN  d.default \o d.disable \o d.enable

\* C19 (as stated): after the duplicate-removal pass of service, features and
\* tags every name is left at most once over all the action lists, and the
\* names left are the first occurrences in their order.
C19_DedupLeavesEachNameOnce ==
    (call.fn \in {"service", "features", "tags"} /\ call.pre.exists
     /\ ~call.kw.list) =>
        /\ \A i, j \in 1..Len(ListsKept) : ListsKept[i] = ListsKept[j] => i = j
        /\ ListsKept = FirstSeen(ListsGiven)

\* a tags call that adds or removes, its two lists naming different tags,
\* against a store that refuses nothing
TagsDisjoint ==
    /\ call.pre.exists
    /\ ~call.kw.list
    /\ call.kw.add # <<>> \/ call.kw.del # <<>>
    /\ Range(call.kw.add) \cap Range(call.kw.del) = {}
    /\ call.fault = {}

TagsResult == (call.pre.tags \cup Range(call.kw.add)) \ Range(call.kw.del)

\* C20: for tags with current set S, add list A and del list R that share no
\* name, the store is left with (S union A) minus R (a test run reports it
\* without storing it); the status carries changes {old: sorted S, new:
\* sorted result} exactly when the result differs from S and is '[SKIP] '
\* otherwise; the same call made again on the store the first one left
\* records no change.
C20_TagsSetAlgebra ==
    /\ (call.fn = "tags" /\ TagsDisjoint) =>
          /\ status.exc = "none"
          /\ status.retcode = 0
          /\ store.tags = (IF test THEN call.pre.tags ELSE TagsResult)
          /\ IF TagsResult # call.pre.tags
             THEN status.changes = ("old" :> Sorted(call.pre.tags))
                                       @@ ("new" :> Sorted(TagsResult))
             ELSE /\ status.changes = NoChanges
                  /\ status.comment[1][1] = "[SKIP] "
    /\ (call.fn = "tags.again" /\ TagsDisjoint /\ ~test) =>
          /\ status.exc = "none"
          /\ status.changes = NoChanges
          /\ status.comment[1][1] = "[SKIP] "
          /\ store = call.pre

C20_Witness ==
    /\ ~test
    /\ call.fn = "tags.again"
    /\ TagsDisjoint
    /\ call.kw.add = <<"a">>
    /\ call.kw.del = <<"b">>
    /\ store.tags = {"a"}
    /\ status.comment[1][1] = "[SKIP] "

\* the tag the store refuses in this call
RefusedTags == {n \in Names : OnDev("tag", n) \in call.fault}

\* C21 (as stated): in a tags call that is not a test run, with add and del
\* lists that share no name, a tag the store refuses does not stop the
\* batch: every other tag of the add list is set and every other tag of the
\* del list is gone when the call returns.
C21_TagsErrorIsolated ==
    (/\ ~test
     /\ call.fn = "tags"
     /\ call.pre.exists
     /\ ~call.kw.list
     /\ Range(call.kw.add) \cap Range(call.kw.del) = {}
     /\ RefusedTags # {}) =>
        /\ status.exc = "none"
        /\ \A t \in Range(call.kw.add) \ RefusedTags : t \in store.tags
        /\ \A t \in Range(call.kw.del) \ RefusedTags : t \notin store.tags

(***************************************************************************)
(* Properties of qvm.devices.                                              *)
(***************************************************************************)
\* the devices the call names, and how often
DevMentions(d) ==
    Cardinality({i \in 1..Len(call.kw.attach) : call.kw.attach[i].dev = d})
        + Cardinality({i \in 1..Len(call.kw.detach) : call.kw.detach[i] = d})

DevRefused(d) ==
    OnDev("attach", d) \in call.fault \/ OnDev("detach", d) \in call.fault

\* C22 (as stated): when the store refuses an attach or a detach, devices
\* raises nothing and still goes through every device of both lists: the
\* status has one entry per device, every other device named once in the
\* attach list is attached and every other device named once in the detach
\* list is detached.
C22_DevicesErrorIsolated ==
    (/\ call.fn = "devices"
     /\ call.pre.exists
     /\ ~call.kw.list
     /\ call.kw.attach # <<>> \/ call.kw.detach # <<>>
     /\ call.fault # {}) =>
        /\ status.exc = "none"
        /\ Len(status.comment) = Len(call.kw.attach) + Len(call.kw.detach)
        /\ \A i \in 1..Len(call.kw.attach) :
              LET d == call.kw.attach[i].dev
              IN  (DevMentions(d) = 1 /\ ~DevRefused(d)) => store.devs[d] # NoDev
        /\ \A i \in 1..Len(call.kw.detach) :
              LET d == call.kw.detach[i]
              IN  (DevMentions(d) = 1 /\ ~DevRefused(d)) => store.devs[d] = NoDev

\* a call of one item whose desired state the store already has
OneItemSatisfied ==
    /\ call.fn \in {"service", "devices"}
    /\ call.pre.exists
    /\ ~call.kw.list
    /\ \/ /\ call.fn = "service"
          /\ call.kw.disable = <<>> /\ call.kw.default = <<>>
          /\ Len(call.kw.enable) = 1
          /\ call.pre.features[SvcKey(call.kw.enable[1])] = ActionMap("enable")
       \/ /\ call.fn = "devices"
          /\ call.kw.detach = <<>>
          /\ Len(call.kw.attach) = 1
          /\ call.pre.devs[call.kw.attach[1].dev] = call.kw.attach[1].options
       \/ /\ call.fn = "devices"
          /\ call.kw.attach = <<>>
          /\ Len(call.kw.detach) = 1
          /\ call.pre.devs[call.kw.detach[1]] = NoDev

\* C23 (as stated): enabling an enabled service, attaching a device that is
\* attached with the same options and detaching a device that is not
\* attached call no mutator (so nothing the store refuses is met and the
\* store is as before) and are reported as satisfied: a passing status whose
\* one entry is '[SKIP] ', with no change.
C23_MutatorOnlyOnDifference ==
    OneItemSatisfied =>
        /\ status.exc = "none"
        /\ status.retcode = 0
        /\ status.changes = NoChanges
        /\ Len(status.comment) = 1
        /\ status.comment[1][1] = "[SKIP] "
        /\ store = call.pre

\* a list that names nothing twice
NoRepeat(list) == \A i, j \in 1..Len(list) : list[i] = list[j] => i = j

\* the second call asks for a state, and for no name twice
AsksOnce ==
    /\ ~call.kw.list
    /\ CASE call.fn = "firewall.again" -> call.kw.set # <<>>
         [] call.fn = "service.again" ->
               /\ call.kw.enable \o call.kw.disable \o call.kw.default # <<>>
               /\ NoRepeat(call.kw.enable \o call.kw.disable \o call.kw.default)
         [] call.fn = "features.again" ->
               /\ call.kw.enable \o call.kw.disable \o call.kw.default # <<>>
                     \/ call.kw.set # <<>>
               /\ NoRepeat(call.kw.enable \o call.kw.disable \o call.kw.default
                           \o [i \in 1..Len(call.kw.set) |-> call.kw.set[i].name])

\* C24 (as stated): a service, features or firewall call that is not a test
\* run, made a second time with the same arguments on the store the first
\* call left, and passing, reports only '[SKIP] ' entries, records no change
\* and leaves the store as it found it.
C24_SetOpsIdempotent ==
    (/\ call.fn \in {"service.again", "features.again", "firewall.again"}
     /\ AsksOnce
     /\ status.exc = "none"
     /\ status.retcode = 0) =>
        /\ status.changes = NoChanges
        /\ \A i \in 1..Len(status.comment) : status.comment[i][1] = "[SKIP] "
        /\ store = call.pre

(***************************************************************************)
(* Properties of the state functions on a VM that does not exist.          *)
(***************************************************************************)
\* a state function called for a VM that does not exist
OnMissingVM(fns) == call.fn \in fns /\ ~call.pre.exists

\* the failing result that carries 'Virtual Machine does not exist!'
DoesNotExist ==
    /\ status.exc = "none"
    /\ status.result = "False"
    /\ status.comment = <<<<"SaltInvocationError">>>>
    /\ status.cmds = <<>>
    /\ store = call.pre

NeedVM ==
    {"state.running", "state.start", "state.pause", "state.unpause",
     "state.devices", "state.service", "state.features", "state.tags",
     "state.firewall"}

HaltedLike == {"state.halted", "state.shutdown", "state.kill", "state.remove"}

\* C25 (as stated): for a VM that does not exist, running, halted, start,
\* shutdown, kill, pause, unpause, prefs, service, features, tags, firewall,
\* devices and remove all return the failing result that carries 'Virtual
\* Machine does not exist!', change nothing and raise nothing.
C25_AsStated ==
    OnMissingVM(NeedVM \cup HaltedLike \cup {"state.prefs"}) => DoesNotExist

\* C25 (amended): for a VM that does not exist, running, start, pause,
\* unpause, service, features, tags, firewall, devices, and prefs when it
\* selects a property, return the failing result that carries 'Virtual
\* Machine does not exist!' and run nothing; halted, shutdown, kill and
\* remove take the missing VM for a halted one and do not fail.  None of
\* them changes the store or raises.
C25_MissingVM ==
    /\ OnMissingVM(NeedVM) => DoesNotExist
    /\ (OnMissingVM({"state.prefs"}) /\ Selected(call.kw) # <<>>) => DoesNotExist
    /\ OnMissingVM(HaltedLike) =>
          /\ status.exc = "none"
          /\ status.result # "False"
          /\ store = call.pre
    /\ OnMissingVM({"state.halted", "state.shutdown", "state.kill"}) =>
          status.cmds = <<>>

C25_Witness ==
    /\ OnMissingVM({"state.halted"})
    /\ ~test
    /\ status.result = "True"
    /\ status.comment = <<<<"[SKIP] ", "SaltInvocationError">>>>

(***************************************************************************)
(* Properties of check and of the lifecycle operations.                    *)
(***************************************************************************)
Passes(s) == s.exc = "none" /\ s.result # "False"

\* C26: the state functions exists and missing (check 'exists', check
\* 'missing') never change the store, in test mode or not; exists passes
\* exactly when the VM exists and missing exactly when it does not, so that
\* on every store exactly one of the two passes.
C26_CheckComplement ==
    /\ call.fn = "state.exists" =>
          /\ store = call.pre
          /\ status.cmds = <<>>
          /\ Passes(status) <=> call.pre.exists
          /\ Passes(status) <=> ~Passes(missing(call.pre, test))
    /\ call.fn = "state.missing" =>
          /\ store = call.pre
          /\ status.cmds = <<>>
          /\ Passes(status) <=> ~call.pre.exists
          /\ Passes(status) <=> ~Passes(exists(call.pre, test))

C26_Witness ==
    /\ test
    /\ call.fn = "state.missing"
    /\ ~call.pre.exists
    /\ Passes(status)
    /\ ~store.exists

\* the state a lifecycle function is called to reach
Desired(fn, st) ==
    CASE fn = "create"   -> st.exists
      [] fn = "clone"    -> st.exists
      [] fn = "remove"   -> ~st.exists
      [] fn = "start"    -> st.exists /\ st.power = "running"
      [] fn = "shutdown" -> ~st.exists \/ st.power = "halted"
      [] fn = "pause"    -> st.exists /\ st.power = "paused"
      [] fn = "unpause"  -> st.exists /\ st.power = "running"

\* C27 (as stated): in a run that is not a test run, create, remove, clone,
\* start, shutdown, pause and unpause that ran their command or power call
\* report a passing status only if the VM is then in the desired state; a
\* command that reports success without having had its effect gives a
\* failing status.
C27_PassOnlyIfVerified ==
    (/\ ~test
     /\ call.fn \in {"create", "remove", "clone", "start", "shutdown", "pause",
                     "unpause"}
     /\ status.cmds # <<>>
     /\ status.exc = "none"
     /\ status.retcode = 0) =>
        Desired(call.fn, store)

\* the shutdown with 'wait' and 'force' that remove starts for a VM it did
\* not observe halted
ShutdownByRemove ==
    shutdown(call.pre, [kill |-> FALSE, force |-> TRUE], test, call.fault)

ShutdownPassed ==
    ShutdownByRemove.exc = "none" /\ Retcode(ShutdownByRemove.entries, "last") = 0

ObservedHalted == ~call.pre.exists \/ call.pre.power = "halted"

RemoveIssued == \E i \in 1..Len(status.cmds) : status.cmds[i] = "qvm-remove"

C29_OneMutationPerDifference ==
    pc = "race" => Len(steps) <= 1

LeftBy(i) ==
    IF ~steps[i].executed THEN {steps[i].pre}
    ELSE {StateFunction(steps[i].action, steps[i].pre, VmArgs(steps[i].action),
                        test, fault).st : fault \in VmFaults(steps[i].action)}

\* C31: vm() handles the entries of the action list (the caller's list, or
\* the built-in order) one by one in list order: the steps taken so far are
\* the first entries of the list that are named in the keyword bag, each
\* occurrence once and none a second time after a failure; a step starts on
\* the store the step before it left; an entry of the list that is not in
\* the keyword bag is neither executed nor reported.
C31_ListOrder ==
    pc \in {"loop", "done", "raised"} =>
        /\ Len(steps) <= Len(Handled)
        /\ \A i \in 1..Len(steps) :
               /\ steps[i].action = Handled[i].action
               /\ steps[i].value = Handled[i].value
               /\ steps[i].action \in kwargs
               /\ i < Len(steps) => steps[i + 1].pre \in LeftBy(i)
               /\ i = Len(steps) => store \in LeftBy(i)
        /\ (pc = "done" /\ AllKnown) => Len(steps) = Len(Handled)
        /\ AllKnown =>
               /\ \A i \in 1..Len(ret.comment) : ret.comment[i].header \in kwargs
               /\ DOMAIN ret.changes \subseteq {"qvm." \o a : a \in kwargs}

\* a list that is not in the built-in order, with an entry that has no
\* keyword: the two other entries were executed in list order
C31_Witness ==
    /\ pc = "done"
    /\ AllKnown
    /\ Len(actions) = 3
    /\ Len(steps) = 2
    /\ steps[1].action = "tags" /\ steps[1].executed
    /\ steps[2].action = "present" /\ steps[2].executed
    /\ actions[2].action = "prefs"
    /\ DOMAIN ret.changes = {"qvm.tags"}

\* step i was executed and its status carried changes
Changed(i) ==
    /\ steps[i].executed
    /\ steps[i].exc = "none"
    /\ steps[i].changes # NoChanges

C33_UnknownKeyword ==
    ~AllKnown =>
        /\ pc \in {"start", "done"}
        /\ steps = <<>>
        /\ pc = "done" =>
               /\ ret.result = "False"
               /\ ret.changes = NoChanges
               /\ \E k \in kwargs \ ActionNames(actions) :
                      ret.comment = <<Section("", <<<<"Unknown action keyword", k>>>>)>>

\* a test run with three valid keywords and an unknown one has returned
C33_Witness ==
    /\ pc = "done"
    /\ test
    /\ ~AllKnown
    /\ Len(Handled) = 3
    /\ steps = <<>>
    /\ ret.result = "False"

(***************************************************************************)
(* Properties of create and clone.                                         *)
(***************************************************************************)
\* the source VM of a clone, as the call found it
CloneSource == [call.pre EXCEPT !.exists = TRUE, !.power = call.pre.source]

\* the shutdown with 'wait' and 'force' that clone starts for its source
ShutdownByClone ==
    shutdown(CloneSource, [kill |-> FALSE, force |-> TRUE], test, call.fault)

ShutdownByClonePassed ==
    ShutdownByClone.exc = "none" /\ Retcode(ShutdownByClone.entries, "last") = 0

CloneIssued == \E i \in 1..Len(status.cmds) : status.cmds[i] = "qvm-clone"

\* C34: create and clone never overwrite an existing VM: when a VM of the
\* target name exists they return a failing status, run no command and
\* leave the store as it was; clone with the 'shutdown' flag on a source that
\* is not halted runs the commands of the shutdown first, and runs no
\* qvm-clone when that shutdown fails.
C34_NeverOverwrite ==
    call.fn \in {"create", "clone"} =>
        /\ call.pre.exists =>
             /\ status.exc = "none"
             /\ status.retcode # 0
             /\ status.cmds = <<>>
             /\ store = call.pre
        /\ (/\ call.fn = "clone" /\ ~call.pre.exists
            /\ call.kw.shutdown /\ call.pre.source # "halted") =>
             /\ CloneIssued =>
                  /\ ShutdownByClonePassed
                  /\ status.cmds = ShutdownByClone.cmds \o <<"qvm-clone">>
             /\ ~ShutdownByClonePassed =>
                  /\ ~CloneIssued
                  /\ status.exc # "none" \/ status.retcode # 0
                  /\ ~store.exists

\* clone has shut its running source down and then made the clone
C34_Witness ==
    /\ call.fn = "clone" /\ ~test
    /\ ~call.pre.exists
    /\ call.kw.shutdown /\ call.pre.source = "running"
    /\ status.cmds = <<"qvm-shutdown", "qvm-clone">>
    /\ status.retcode = 0
    /\ store.exists

(***************************************************************************)
(* Properties of shutdown, pause and unpause.                              *)
(***************************************************************************)
\* the command shutdown starts with
FirstCommand == IF call.kw.kill THEN "qvm-kill" ELSE "qvm-shutdown"

\* the VM is still up after the first command
StillUp ==
    Run(Acc(call.pre, <<>>), FirstCommand, FALSE, call.fault).st.power # "halted"

\* C35: a shutdown that is not a test run, of a VM that is running, issues
\* the shutdown command (the kill command with the 'kill' flag) once; one
\* more kill follows exactly when the VM is still not halted and the 'force'
\* flag is set; the status passes only if the VM is halted at the end.
C35_ShutdownCommands ==
    (/\ call.fn = "shutdown" /\ ~test
     /\ call.pre.exists /\ call.pre.power = "running") =>
        /\ status.exc = "none"
        /\ status.cmds = <<FirstCommand>>
                           \o (IF StillUp /\ call.kw.force THEN <<"qvm-kill">>
                               ELSE <<>>)
        /\ status.retcode = 0 => store.power = "halted"

\* the shutdown command left the VM up and the kill of 'force' halted it
C35_Witness ==
    /\ call.fn = "shutdown" /\ ~test
    /\ call.pre.exists /\ call.pre.power = "running"
    /\ call.kw.force /\ ~call.kw.kill
    /\ status.cmds = <<"qvm-shutdown", "qvm-kill">>
    /\ status.retcode = 0
    /\ store.power = "halted"

\* C36 (as stated): a shutdown that is not a test run, called on a VM that
\* is not halted (running, paused or transient), issues a shutdown or a kill
\* command for it before it returns.
C36_ShutdownIssuesCommand ==
    (/\ call.fn = "shutdown" /\ ~test
     /\ call.pre.exists /\ call.pre.power # "halted"
     /\ status.exc = "none") =>
        \E i \in 1..Len(status.cmds) : status.cmds[i] \in {"qvm-shutdown", "qvm-kill"}

\* pause called on a VM that is not running, unpause on one not paused
NothingToDo ==
    /\ call.fn \in {"pause", "unpause"}
    /\ call.pre.exists
    /\ call.pre.power # (IF call.fn = "pause" THEN "running" ELSE "paused")

\* C37: pause on a VM that is not running, and unpause on a VM that is not
\* paused, make no pause or unpause call, leave the store as it was and
\* return a passing status whose last line is 'VM is not running'
\* (respectively 'VM is not paused').
C37_NothingToPause ==
    NothingToDo =>
        /\ status.exc = "none"
        /\ status.cmds = <<>>
        /\ store = call.pre
        /\ status.retcode = 0
        /\ status.result # "False"
        /\ status.comment[Len(status.comment)] =
               <<"", IF call.fn = "pause" THEN "VM is not running"
                     ELSE "VM is not paused">>

\* unpause was called on a running VM in a run that is not a test run
C37_Witness ==
    /\ call.fn = "unpause" /\ ~test
    /\ call.pre.exists /\ call.pre.power = "running"
    /\ call.fault = {}
    /\ status.retcode = 0
    /\ status.cmds = <<>>
    /\ store.power = "running"

(***************************************************************************)
(* Properties of devices: re-attaching with other options.                 *)
(***************************************************************************)
\* the one device of the call is attached, with other options than asked
ReAttach ==
    /\ call.fn = "devices"
    /\ call.pre.exists
    /\ ~call.kw.list
    /\ call.kw.detach = <<>>
    /\ Len(call.kw.attach) = 1
    /\ call.pre.devs[call.kw.attach[1].dev] \notin {NoDev, call.kw.attach[1].options}

\* C38 (as stated): attaching a device that is attached with other options
\* never ends with the device detached: after the call it is attached with
\* the new options or, when the attach failed, still with the old ones.
C38_NeverLeftDetached ==
    ReAttach =>
        LET device == call.kw.attach[1]
        IN  store.devs[device.dev] \in
                {call.pre.devs[device.dev], Serialize(device.options)}

====
